---- MODULE Spec2Model ----
(***************************************************************************)
(* cf-vps-monitor (src/worker.js): the website availability check          *)
(* (checkWebsiteStatus), its notification debouncing, and the batched      *)
(* cron scheduler (scheduled).                                             *)
(*                                                                         *)
(* Two specifications share the same definitions:                          *)
(*   Spec       one endpoint followed through MaxTriggers cron triggers    *)
(*              that do not overlap; each await of checkWebsiteStatus is a *)
(*              step of its own; every fetch outcome, a SELECT that throws *)
(*              and a db.batch that throws are drawn; the clock advances   *)
(*              between triggers.                                          *)
(*   SchedSpec  one cron trigger over NumSitesSched new endpoints, more    *)
(*              than siteConcurrencyLimit; the three steps of a check are  *)
(*              taken together when its promise settles (checks of         *)
(*              different rows commute), in any order within a batch.      *)
(* A row deleted while it is checked and checks of one endpoint that       *)
(* overlap are in neither.                                                 *)
(***************************************************************************)
EXTENDS Integers, Sequences, FiniteSets

VARIABLES
    now,                  \* Math.floor(Date.now() / 1000)
    monitored_sites,      \* D1 table monitored_sites: id -> row
    site_status_history,  \* D1 table site_status_history: id -> rows, oldest first
    evals,                \* running/settled checkWebsiteStatus calls: id -> locals
    overlapping,          \* checkWebsiteStatus calls of another invocation: id -> locals
    notifications,        \* ctx.waitUntil(sendTelegramNotification(..)) calls: id -> calls
    sched,                \* the scheduled() handler: position, loop index, sitePromises
    telegram_config,      \* D1 table telegram_config: its rows (at most the row id = 1)
    dispatch,             \* one sendTelegramNotification call: position and locals
    servers,              \* D1 table servers: id -> row
    metrics,              \* D1 table metrics: its rows
    report,               \* the last answer of POST /api/report/:id
    watch,                \* what the VPS pass of scheduled() did for each server
    history,              \* ping_daemon.py: history[carrier], a deque(maxlen=HISTORY_LEN)
    writer,               \* ping_daemon.py: data_writer's position and locals
    output_file,          \* the content of OUTPUT_FILE
    pushed,               \* every result a worker has appended, oldest first
    ping_data             \* what get_ping_data printed when report_metrics last ran

\* the clock and the state of the Worker's website monitoring
siteVars ==
    <<now, monitored_sites, site_status_history, evals, overlapping, notifications,
      sched>>

\* the state of the Worker's host monitoring and of the notification channel
hostVars == <<telegram_config, dispatch, servers, metrics, report, watch>>

\* the state of ping_daemon.py on one host
pingVars == <<history, writer, output_file, pushed, ping_data>>

vars == <<siteVars, hostVars, pingVars>>

-----------------------------------------------------------------------------
(* Bounds of the model                                                     *)

\* endpoints in monitored_sites under SchedSpec (more than siteConcurrencyLimit)
NumSitesSched == 11
\* cron triggers followed under Spec
MaxTriggers == 3
\* the clock stops advancing here
MaxTime == 3800
\* sendTelegramNotification calls followed under DispatchSpec
MaxInvocations == 2
\* appends of the workers followed under ProbeSpec
MaxPushes == 2
\* turns of data_writer's loop followed under ProbeSpec
MaxWriterPasses == 2
\* checkWebsiteStatus calls of other scheduled() invocations followed under
\* OverlapSpec, for each endpoint
MaxOverlaps == 1
\* POST /api/admin/sites adds endpoints under CreateSpec until there are this many
MaxSites == 10

\* seconds the clock may advance in one step
TimeSteps == {1800, 1900}

-----------------------------------------------------------------------------
(* Program constants                                                       *)

\* SQL NULL / JS null (an integer so that it compares with timestamps)
NULL == -1
NOTIFICATION_INTERVAL_SECONDS == 3600
siteConcurrencyLimit == 10

STATUSES == {"PENDING", "UP", "DOWN", "TIMEOUT", "ERROR"}
FAILING == {"DOWN", "TIMEOUT", "ERROR"}

\* what fetch(url, {method: 'HEAD', signal: AbortSignal.timeout(15000)}) can do:
\* resolve with a response, or throw TimeoutError, or throw anything else
FetchOutcomes ==
    { [kind |-> "response", status |-> c, ms |-> 120] : c \in {200, 404, 500} }
    \cup { [kind |-> "timeout", status |-> NULL, ms |-> 15000],
           [kind |-> "error", status |-> NULL, ms |-> 30] }

Response(c) == [kind |-> "response", status |-> c, ms |-> 120]
TimedOut == [kind |-> "timeout", status |-> NULL, ms |-> 15000]
Failed == [kind |-> "error", status |-> NULL, ms |-> 30]

\* the inputs <<SELECT returns, fetch outcome, db.batch returns>> drawn for
\* endpoint s under SchedSpec: two per endpoint, every kind among them
SchedInputs(s) ==
    CASE s % 4 = 1 -> { <<TRUE, Response(200), TRUE>>, <<TRUE, Response(500), TRUE>> }
      [] s % 4 = 2 -> { <<TRUE, Response(404), TRUE>>, <<TRUE, TimedOut, TRUE>> }
      [] s % 4 = 3 -> { <<TRUE, Failed, TRUE>>, <<TRUE, Failed, FALSE>> }
      [] OTHER     -> { <<FALSE, Response(200), TRUE>>, <<TRUE, Response(500), FALSE>> }

-----------------------------------------------------------------------------
(* checkWebsiteStatus, as functions on the part of the state one call      *)
(* touches: w = [row, hist, sent, ev]                                      *)

\* the locals of a call that has not started
IdleEval ==
    [ pc |-> "idle",
      previousStatus |-> "PENDING", siteLastNotifiedDownAt |-> NULL,
      newStatus |-> "PENDING", newStatusCode |-> NULL, newResponseTime |-> NULL,
      checkTime |-> NULL, newSiteLastNotifiedDownAt |-> NULL,
      fetched |-> "none",           \* how the fetch settled: response, timeout, error
      notified |-> "none",          \* which message this call handed to waitUntil
      persistedStatus |-> "PENDING",\* last_status in the row when the SELECT ran
      persistedNotifiedAt |-> NULL, \* last_notified_down_at in the row then
      selected |-> TRUE,            \* the SELECT returned rather than threw
      readAt |-> 0,                 \* history rows of the endpoint when it ran
      wrote |-> FALSE,              \* db.batch applied
      settled |-> "pending",        \* state of the call's promise
      calls |-> 0,                  \* calls made for this endpoint so far
      writes |-> 0,                 \* of which db.batch was applied
      sentBefore |-> 0,             \* waitUntil calls for the endpoint before this call
      histBefore |-> 0 ]            \* history rows of the endpoint before this call

\* lines 1140-1147: the synchronous start of a call for the endpoint whose
\* state is w
StartEval(w) ==
    [IdleEval EXCEPT !.pc = "read",
                     !.calls = w.ev.calls + 1, !.writes = w.ev.writes,
                     !.sentBefore = Len(w.sent), !.histBefore = Len(w.hist)]

\* ReadPrevious without the try of lines 1148-1157 having any effect on the
\* locals: they are what the row holds
ReadPreviousUnfailing(w, ok) ==
    [w EXCEPT
       !.ev.pc = "fetch",
       !.ev.persistedStatus = w.row.last_status,
       !.ev.persistedNotifiedAt = w.row.last_notified_down_at,
       !.ev.selected = ok,
       !.ev.readAt = Len(w.hist),
       !.ev.previousStatus = w.row.last_status,
       !.ev.siteLastNotifiedDownAt = w.row.last_notified_down_at]

\* lines 1148-1157: SELECT last_status, last_notified_down_at; a throw is caught
\* and the defaults PENDING / null are kept
ReadPrevious(w, ok) ==
    [w EXCEPT
       !.ev.pc = "fetch",
       !.ev.selected = ok,
       !.ev.readAt = Len(w.hist),
       !.ev.persistedStatus = w.row.last_status,
       !.ev.persistedNotifiedAt = w.row.last_notified_down_at,
       !.ev.previousStatus = IF ok THEN w.row.last_status ELSE "PENDING",
       !.ev.siteLastNotifiedDownAt =
            IF ok THEN w.row.last_notified_down_at ELSE NULL]

\* Classify with line 1166 testing response.status < 400
ClassifyClientErrorDown(o) ==
    IF o.kind = "response"
    THEN IF (o.status >= 200 /\ o.status <= 299)
            \/ (o.status >= 300 /\ o.status < 400)
         THEN "UP" ELSE "DOWN"
    ELSE IF o.kind = "timeout" THEN "TIMEOUT" ELSE "ERROR"

\* Classify with line 1176 left out: newStatus keeps the 'PENDING' of line 1142
ClassifyErrorUnassigned(o) ==
    IF o.kind = "response"
    THEN IF (o.status >= 200 /\ o.status <= 299)
            \/ (o.status >= 300 /\ o.status < 500)
         THEN "UP" ELSE "DOWN"
    ELSE IF o.kind = "timeout" THEN "TIMEOUT" ELSE "PENDING"

\* lines 1161-1179: the status of a fetch outcome
Classify(o) ==
    IF o.kind = "response"
    THEN IF (o.status >= 200 /\ o.status <= 299)
            \/ (o.status >= 300 /\ o.status < 500)
         THEN "UP" ELSE "DOWN"
    ELSE IF o.kind = "timeout" THEN "TIMEOUT" ELSE "ERROR"

\* shouldResend with line 1193 testing >= NOTIFICATION_INTERVAL_SECONDS
shouldResendAtInterval(siteLastNotifiedDownAt, checkTime) ==
    \/ siteLastNotifiedDownAt = NULL
    \/ checkTime - siteLastNotifiedDownAt >= NOTIFICATION_INTERVAL_SECONDS

\* line 1193
shouldResend(siteLastNotifiedDownAt, checkTime) ==
    \/ siteLastNotifiedDownAt = NULL
    \/ checkTime - siteLastNotifiedDownAt > NOTIFICATION_INTERVAL_SECONDS

\* Engine with line 1190 left out: the first failure is announced but not stamped
EngineNoStamp(previousStatus, siteLastNotifiedDownAt, newStatus, checkTime) ==
    IF newStatus \in FAILING
    THEN IF previousStatus \notin FAILING
         THEN [notify |-> "down", at |-> siteLastNotifiedDownAt]
         ELSE IF shouldResend(siteLastNotifiedDownAt, checkTime)
              THEN [notify |-> "still_down", at |-> checkTime]
              ELSE [notify |-> "none", at |-> siteLastNotifiedDownAt]
    ELSE IF newStatus = "UP" /\ previousStatus \in FAILING
         THEN [notify |-> "recovered", at |-> NULL]
         ELSE [notify |-> "none", at |-> siteLastNotifiedDownAt]

\* Engine with line 1203 testing previousStatus !== 'UP'
EngineRecoverFromPending(previousStatus, siteLastNotifiedDownAt, newStatus, checkTime) ==
    IF newStatus \in FAILING
    THEN IF previousStatus \notin FAILING
         THEN [notify |-> "down", at |-> checkTime]
         ELSE IF shouldResend(siteLastNotifiedDownAt, checkTime)
              THEN [notify |-> "still_down", at |-> checkTime]
              ELSE [notify |-> "none", at |-> siteLastNotifiedDownAt]
    ELSE IF newStatus = "UP" /\ previousStatus # "UP"
         THEN [notify |-> "recovered", at |-> NULL]
         ELSE [notify |-> "none", at |-> siteLastNotifiedDownAt]

\* Engine with line 1186 testing previousStatus === 'UP': PENDING is treated
\* like a failing status
EnginePendingAsFailing(previousStatus, siteLastNotifiedDownAt, newStatus, checkTime) ==
    IF newStatus \in FAILING
    THEN IF previousStatus = "UP"
         THEN [notify |-> "down", at |-> checkTime]
         ELSE IF shouldResend(siteLastNotifiedDownAt, checkTime)
              THEN [notify |-> "still_down", at |-> checkTime]
              ELSE [notify |-> "none", at |-> siteLastNotifiedDownAt]
    ELSE IF newStatus = "UP" /\ previousStatus \in FAILING
         THEN [notify |-> "recovered", at |-> NULL]
         ELSE [notify |-> "none", at |-> siteLastNotifiedDownAt]

\* Engine with line 1206 left out: a recovery keeps the stamp
EngineRecoveryKeepsStamp(previousStatus, siteLastNotifiedDownAt, newStatus, checkTime) ==
    IF newStatus \in FAILING
    THEN IF previousStatus \notin FAILING
         THEN [notify |-> "down", at |-> checkTime]
         ELSE IF shouldResend(siteLastNotifiedDownAt, checkTime)
              THEN [notify |-> "still_down", at |-> checkTime]
              ELSE [notify |-> "none", at |-> siteLastNotifiedDownAt]
    ELSE IF newStatus = "UP" /\ previousStatus \in FAILING
         THEN [notify |-> "recovered", at |-> siteLastNotifiedDownAt]
         ELSE [notify |-> "none", at |-> siteLastNotifiedDownAt]

\* lines 1183-1208: which message is handed to waitUntil, and the new
\* last_notified_down_at
Engine(previousStatus, siteLastNotifiedDownAt, newStatus, checkTime) ==
    IF newStatus \in FAILING
    THEN IF previousStatus \notin FAILING
         THEN [notify |-> "down", at |-> checkTime]
         ELSE IF shouldResend(siteLastNotifiedDownAt, checkTime)
              THEN [notify |-> "still_down", at |-> checkTime]
              ELSE [notify |-> "none", at |-> siteLastNotifiedDownAt]
    ELSE IF newStatus = "UP" /\ previousStatus \in FAILING
         THEN [notify |-> "recovered", at |-> NULL]
         ELSE [notify |-> "none", at |-> siteLastNotifiedDownAt]

\* lines 1161-1208: the fetch settles at time t with outcome o; classification,
\* checkTime, the decision and the waitUntil call run without an await between
FetchAndDecide(w, o, t) ==
    LET st == Classify(o)
        d  == Engine(w.ev.previousStatus, w.ev.siteLastNotifiedDownAt, st, t)
    IN [w EXCEPT
          !.ev.pc = "write",
          !.ev.fetched = o.kind,
          !.ev.newStatus = st,
          !.ev.newStatusCode = o.status,
          !.ev.newResponseTime = o.ms,
          !.ev.checkTime = t,
          !.ev.newSiteLastNotifiedDownAt = d.at,
          !.ev.notified = d.notify,
          !.sent = IF d.notify = "none" THEN w.sent
                   ELSE Append(w.sent, [kind |-> d.notify, at |-> t])]

\* Settlement without the catch of lines 1223-1225
SettlementRejects(ok) == IF ok THEN "fulfilled" ELSE "rejected"

\* lines 1223-1225: a throw of db.batch is caught, so the call's promise fulfils
Settlement(ok) == "fulfilled"

\* WriteBack with the INSERT run on its own, before an UPDATE that throws
WriteBackInsertFirst(w, ok) ==
    LET event == [ timestamp |-> w.ev.checkTime, status |-> w.ev.newStatus,
                   status_code |-> w.ev.newStatusCode,
                   response_time_ms |-> w.ev.newResponseTime ]
    IN IF ok
       THEN [w EXCEPT
               !.ev.pc = "done", !.ev.wrote = TRUE, !.ev.writes = @ + 1,
               !.ev.settled = Settlement(TRUE),
               !.row = [ w.row EXCEPT
                           !.last_checked = w.ev.checkTime,
                           !.last_status = w.ev.newStatus,
                           !.last_status_code = w.ev.newStatusCode,
                           !.last_response_time_ms = w.ev.newResponseTime,
                           !.last_notified_down_at = w.ev.newSiteLastNotifiedDownAt ],
               !.hist = Append(w.hist, event)]
       ELSE [w EXCEPT !.ev.pc = "done", !.ev.settled = Settlement(FALSE),
                      !.hist = Append(w.hist, event)]

\* WriteBack with the UPDATE run on its own, before an INSERT that throws
WriteBackUpdateFirst(w, ok) ==
    LET row == [ w.row EXCEPT
                   !.last_checked = w.ev.checkTime,
                   !.last_status = w.ev.newStatus,
                   !.last_status_code = w.ev.newStatusCode,
                   !.last_response_time_ms = w.ev.newResponseTime,
                   !.last_notified_down_at = w.ev.newSiteLastNotifiedDownAt ]
    IN IF ok
       THEN [w EXCEPT
               !.ev.pc = "done", !.ev.wrote = TRUE, !.ev.writes = @ + 1,
               !.ev.settled = Settlement(TRUE),
               !.row = row,
               !.hist = Append(w.hist,
                         [ timestamp |-> w.ev.checkTime,
                           status |-> w.ev.newStatus,
                           status_code |-> w.ev.newStatusCode,
                           response_time_ms |-> w.ev.newResponseTime ])]
       ELSE [w EXCEPT !.ev.pc = "done", !.ev.settled = Settlement(FALSE),
                      !.row = row]

\* WriteBack with a DELETE of the endpoint's history rows ahead of the INSERT
WriteBackRewritesHistory(w, ok) ==
    IF ok
    THEN [w EXCEPT
            !.ev.pc = "done", !.ev.wrote = TRUE, !.ev.writes = @ + 1,
            !.ev.settled = Settlement(TRUE),
            !.row = [ w.row EXCEPT
                        !.last_checked = w.ev.checkTime,
                        !.last_status = w.ev.newStatus,
                        !.last_status_code = w.ev.newStatusCode,
                        !.last_response_time_ms = w.ev.newResponseTime,
                        !.last_notified_down_at = w.ev.newSiteLastNotifiedDownAt ],
            !.hist = << [ timestamp |-> w.ev.checkTime,
                          status |-> w.ev.newStatus,
                          status_code |-> w.ev.newStatusCode,
                          response_time_ms |-> w.ev.newResponseTime ] >>]
    ELSE [w EXCEPT !.ev.pc = "done", !.ev.settled = Settlement(FALSE)]

\* lines 1210-1225: db.batch([UPDATE monitored_sites, INSERT site_status_history]);
\* D1 applies a batch as one transaction
WriteBack(w, ok) ==
    IF ok
    THEN [w EXCEPT
            !.ev.pc = "done", !.ev.wrote = TRUE, !.ev.writes = @ + 1,
            !.ev.settled = Settlement(TRUE),
            !.row = [ w.row EXCEPT
                        !.last_checked = w.ev.checkTime,
                        !.last_status = w.ev.newStatus,
                        !.last_status_code = w.ev.newStatusCode,
                        !.last_response_time_ms = w.ev.newResponseTime,
                        !.last_notified_down_at = w.ev.newSiteLastNotifiedDownAt ],
            !.hist = Append(w.hist,
                      [ timestamp |-> w.ev.checkTime,
                        status |-> w.ev.newStatus,
                        status_code |-> w.ev.newStatusCode,
                        response_time_ms |-> w.ev.newResponseTime ])]
    ELSE [w EXCEPT !.ev.pc = "done", !.ev.settled = Settlement(FALSE)]

-----------------------------------------------------------------------------
(* telegram_config and sendTelegramNotification: lines 62-70, 1107-1136    *)

\* a row of telegram_config; 1 stands for a text, NULL for no text
TelegramRow(bot_token, chat_id, enable_notifications) ==
    [ id |-> 1, bot_token |-> bot_token, chat_id |-> chat_id,
      enable_notifications |-> enable_notifications ]

\* what the table can hold: no row, the row of the schema (line 70), or that row
\* as POST /api/admin/telegram-settings updates it (lines 1037-1042)
TelegramConfigs ==
    { {} } \cup { { TelegramRow(t, c, e) } : t \in {NULL, 1}, c \in {NULL, 1},
                                             e \in {0, 1} }

\* token, chat and notifications enabled
ConfiguredChannel == { TelegramRow(1, 1, 1) }

\* NotConfigured with line 1284 testing !telegramConfig only
NotConfiguredAbsentOnly(config) == config = {}

\* NotConfigured without the test of enable_notifications
NotConfiguredIgnoresEnable(config) ==
    \/ config = {}
    \/ \E r \in config : r.bot_token = NULL \/ r.chat_id = NULL

\* lines 1112 and 1284, on what SELECT ... WHERE id = 1 returned:
\* !config || !config.enable_notifications || !config.bot_token || !config.chat_id
NotConfigured(config) ==
    \/ config = {}
    \/ \E r \in config : \/ r.enable_notifications = 0
                         \/ r.bot_token = NULL
                         \/ r.chat_id = NULL

\* the messages of lines 1189, 1196, 1205, 1313, 1323 and 1045
Messages == {"down", "still_down", "recovered", "offline", "online", "test"}

\* what the POST to api.telegram.org can do: answer, or throw
TelegramOutcomes ==
    { [kind |-> "response", status |-> c] : c \in {200, 400, 429, 500} }
    \cup { [kind |-> "error", status |-> NULL] }

\* the locals of a call that has not started
IdleDispatch ==
    [ pc |-> "idle", message |-> "none",
      config |-> {},          \* what the SELECT returned
      read |-> "pending",     \* whether it returned ("row", "null") or "threw"
      calls |-> 0,            \* fetch calls of this invocation
      log |-> "none",         \* which console line the call ended with
      settled |-> "pending",  \* state of the call's promise
      invoked |-> 0 ]         \* invocations so far

\* line 1107: the call starts and runs to the await of line 1110
StartDispatch(d, message) ==
    [IdleDispatch EXCEPT !.pc = "read", !.message = message,
                         !.invoked = d.invoked + 1]

\* lines 1109-1126: the SELECT returns (ok) or throws; a usable config leads to
\* the fetch of line 1118, any other to the return of line 1114; a throw to the
\* catch of line 1133
ReadConfig(d, table, ok) ==
    IF ~ok
    THEN [d EXCEPT !.pc = "done", !.read = "threw", !.log = "error",
                   !.settled = "fulfilled"]
    ELSE IF NotConfigured(table)
         THEN [d EXCEPT !.pc = "done", !.config = table,
                        !.read = IF table = {} THEN "null" ELSE "row",
                        !.log = "disabled", !.settled = "fulfilled"]
         ELSE [d EXCEPT !.pc = "fetch", !.config = table, !.read = "row",
                        !.calls = @ + 1]

\* FetchSettled sending the message once more after an answer that is not ok
FetchSettledRetry(d, o) ==
    IF o.kind = "error"
    THEN [d EXCEPT !.pc = "done", !.log = "error", !.settled = "fulfilled"]
    ELSE IF o.status >= 200 /\ o.status <= 299
         THEN [d EXCEPT !.pc = "done", !.log = "sent", !.settled = "fulfilled"]
         ELSE IF d.calls < 2
              THEN [d EXCEPT !.pc = "fetch", !.calls = @ + 1]
              ELSE [d EXCEPT !.pc = "json"]

\* lines 1118-1132: the fetch settles with outcome o; an answer that is not ok
\* leads to the await of line 1128
FetchSettled(d, o) ==
    IF o.kind = "error"
    THEN [d EXCEPT !.pc = "done", !.log = "error", !.settled = "fulfilled"]
    ELSE IF o.status >= 200 /\ o.status <= 299
         THEN [d EXCEPT !.pc = "done", !.log = "sent", !.settled = "fulfilled"]
         ELSE [d EXCEPT !.pc = "json"]

\* lines 1128-1135: response.json() returns (ok) or throws into the catch
JsonSettled(d, ok) ==
    [d EXCEPT !.pc = "done", !.log = IF ok THEN "failed" ELSE "error",
              !.settled = "fulfilled"]

-----------------------------------------------------------------------------
(* servers, metrics and POST /api/report/:id: lines 12-35, 455-525         *)

\* a row of servers as POST /api/admin/servers inserts it (line 333; line 20
\* for the default); 100 + h stands for the key generated for server h
ServerRow(h) == [ api_key |-> 100 + h, last_notified_down_at |-> NULL ]

\* the object {}
EmptyObject == [k \in {} |-> 0]

\* the keys line 485 asks for
RequiredKeys == {"timestamp", "cpu", "memory", "disk", "network", "uptime"}

\* a parsed report body: keys tells which properties it has; a property it lacks
\* reads as undefined and its field here is never used
Body(keys, t, c, p) ==
    [ keys |-> keys, timestamp |-> t, cpu |-> [usage_percent |-> c],
      memory |-> [usage_percent |-> 40], disk |-> [usage_percent |-> 60],
      network |-> [upload_speed |-> 0], uptime |-> 0, ping |-> p ]

\* no body
NoBody == Body({}, 0, 0, EmptyObject)

\* what monitor.sh reads from OUTPUT_FILE and sends as ping
SomePing == [cu |-> 0, ct |-> 25, cm |-> 100]

\* the bodies drawn for a report sent at time t: complete ones with two cpu
\* readings, one without ping, one with timestamp 0, and one lacking each
\* required key
ReportBodies(t) ==
    { Body(RequiredKeys \cup {"ping"}, t, c, SomePing) : c \in {5, 50} }
    \cup { Body(RequiredKeys, t, 5, EmptyObject),
           Body(RequiredKeys \cup {"ping"}, 0, 5, SomePing) }
    \cup { Body((RequiredKeys \cup {"ping"}) \ {k}, t, 5, SomePing) :
             k \in RequiredKeys }

\* JSON.stringify: the text of an object, which is not the object
JSON_stringify(o) == <<"JSON", o>>

\* JSON.parse (lines 241-245): the object a text stands for
JSON_parse(text) == text[2]

\* MissingRequired with the test of uptime left out
MissingRequiredNoUptime(reportData) ==
    \/ "timestamp" \notin reportData.keys \/ reportData.timestamp = 0
    \/ "cpu" \notin reportData.keys
    \/ "memory" \notin reportData.keys
    \/ "disk" \notin reportData.keys
    \/ "network" \notin reportData.keys

\* line 485: !reportData.timestamp || !reportData.cpu || !reportData.memory ||
\* !reportData.disk || !reportData.network || typeof reportData.uptime === 'undefined'
MissingRequired(reportData) ==
    \/ "timestamp" \notin reportData.keys \/ reportData.timestamp = 0
    \/ "cpu" \notin reportData.keys
    \/ "memory" \notin reportData.keys
    \/ "disk" \notin reportData.keys
    \/ "network" \notin reportData.keys
    \/ "uptime" \notin reportData.keys

\* lines 497-506: the values bound to the REPLACE
MetricsRow(serverId, reportData) ==
    [ server_id |-> serverId,
      timestamp |-> reportData.timestamp,
      cpu |-> JSON_stringify(reportData.cpu),
      memory |-> JSON_stringify(reportData.memory),
      disk |-> JSON_stringify(reportData.disk),
      network |-> JSON_stringify(reportData.network),
      uptime |-> reportData.uptime,
      ping |-> JSON_stringify(IF "ping" \in reportData.keys
                              THEN reportData.ping ELSE EmptyObject) ]

\* ReplaceInto as a plain INSERT into a table without the primary key
InsertInto(table, row) == table \cup { row }

\* line 494 with line 25: REPLACE INTO a table whose primary key is server_id
\* deletes the row with that key, then inserts
ReplaceInto(table, row) ==
    { r \in table : r.server_id # row.server_id } \cup { row }

\* lines 457-524: the status of the answer; sok, parses and wok tell whether the
\* SELECT of line 468, request.json() and the REPLACE return rather than throw
ReportStatus(serverId, apiKey, reportData, sok, parses, wok) ==
    IF apiKey = NULL THEN 401
    ELSE IF ~sok THEN 500
    ELSE IF serverId \notin DOMAIN servers THEN 404
    ELSE IF servers[serverId].api_key # apiKey THEN 401
    ELSE IF ~parses THEN 500
    ELSE IF MissingRequired(reportData) THEN 400
    ELSE IF ~wok THEN 500
    ELSE 200

\* no request answered yet.  accepted[h] is the body of the last report for h
\* that was answered with 200; repeat tells that the report just answered with
\* 200 had the body of the one accepted before it for the same server
NoReport(hosts) ==
    [ serverId |-> 0, apiKey |-> NULL, status |-> 0, body |-> NoBody,
      repeat |-> FALSE,
      accepted |-> [h \in hosts |-> NoBody] ]

-----------------------------------------------------------------------------
(* The VPS pass of scheduled(): lines 1280-1333                            *)

staleThresholdSeconds == 300

\* lines 1290-1292: the rows the LEFT JOIN gives for server h, as last_report
JoinRows(h) ==
    IF \E m \in metrics : m.server_id = h
    THEN { m.timestamp : m \in { r \in metrics : r.server_id = h } }
    ELSE { NULL }

\* isStale with line 1306 testing >= staleThresholdSeconds
isStaleAtThreshold(last_report, nowSeconds) ==
    \/ last_report = NULL \/ last_report = 0
    \/ nowSeconds - last_report >= staleThresholdSeconds

\* line 1306: !server.last_report || (nowSeconds - server.last_report > staleThresholdSeconds)
isStale(last_report, nowSeconds) ==
    \/ last_report = NULL \/ last_report = 0
    \/ nowSeconds - last_report > staleThresholdSeconds

\* shouldSendNotification with line 1311 testing >= NOTIFICATION_INTERVAL_SECONDS
shouldSendNotificationAtInterval(last_notified_down_at, nowSeconds) ==
    \/ last_notified_down_at = NULL
    \/ nowSeconds - last_notified_down_at >= NOTIFICATION_INTERVAL_SECONDS

\* line 1311
shouldSendNotification(last_notified_down_at, nowSeconds) ==
    \/ last_notified_down_at = NULL
    \/ nowSeconds - last_notified_down_at > NOTIFICATION_INTERVAL_SECONDS

\* lines 1310-1331 for one server: the message handed to waitUntil, whether an
\* UPDATE of last_notified_down_at is issued, and its value
Watchdog(last_report, last_notified_down_at, nowSeconds) ==
    IF isStale(last_report, nowSeconds)
    THEN IF shouldSendNotification(last_notified_down_at, nowSeconds)
         THEN [stale |-> TRUE, notify |-> "offline", update |-> TRUE,
               at |-> nowSeconds]
         ELSE [stale |-> TRUE, notify |-> "none", update |-> FALSE,
               at |-> last_notified_down_at]
    ELSE IF last_notified_down_at # NULL
         THEN [stale |-> FALSE, notify |-> "online", update |-> TRUE, at |-> NULL]
         ELSE [stale |-> FALSE, notify |-> "none", update |-> FALSE,
               at |-> last_notified_down_at]

\* what is kept of the passes over one server
IdleWatch ==
    [ triggers |-> 0,        \* triggers of scheduled() that have ended
      at |-> NULL,           \* nowSeconds of the last of them
      reads |-> FALSE,       \* whether its SELECTs returned
      evaluated |-> 0,       \* times the loop of line 1305 met the server, last trigger
      seen |-> NULL,         \* server.last_report then
      stamp |-> NULL,        \* server.last_notified_down_at then
      stale |-> FALSE,       \* isStale then
      notify |-> "none",     \* the message handed to waitUntil then
      update |-> "none",     \* the UPDATE issued then: "applied" or "failed"
      offlineAt |-> NULL,    \* when the last "offline" message was triggered
      stored |-> FALSE,      \* whether the UPDATE that went with it was applied
      prevOfflineAt |-> NULL,\* the "offline" message before, same outage
      prevStored |-> FALSE,
      enginePrev |-> "PENDING", \* the rule of lines 1183-1208 run beside the pass
      engineAt |-> NULL,
      engineNotify |-> "none",
      inStep |-> TRUE ]      \* every pass so far met the server, no UPDATE failed

-----------------------------------------------------------------------------
(* ping_daemon.py: src/unnamed/part_000 lines 32-98, generated a second    *)
(* time by src/worker.js lines 1440-1515                                   *)

\* the keys of TARGETS and of history, in dict order
TARGETS == <<"cu", "ct", "cm">>
HISTORY_LEN == 100

\* deque.append without maxlen
appendUnbounded(q, result) == Append(q, result)

\* line 69: history[carrier].append(result) on a deque(maxlen=HISTORY_LEN): a
\* full deque drops its leftmost item
append(q, result) ==
    IF Len(q) = HISTORY_LEN THEN Append(Tail(q), result) ELSE Append(q, result)

\* list.count
count(list, x) == Cardinality({ i \in DOMAIN list : list[i] = x })

\* Python floats are IEEE 754 binary64.  A positive float is kept as
\* [d, e]: five digits d[1..5] in base Radix = 2^13 and an exponent, standing
\* for (d[1]*Radix^4 + ... + d[5]) * 2^(e - 52); a result rounded to 53 bits
\* has d[1] = 1 (or d = <<2, 0, 0, 0, 0>>).
Radix == 8192

\* the least s with a * 2^s >= b
RECURSIVE ShiftTo(_, _)
ShiftTo(a, b) == IF a >= b THEN 0 ELSE 1 + ShiftTo(2 * a, b)

RECURSIVE BitLength(_)
BitLength(n) == IF n = 0 THEN 0 ELSE 1 + BitLength(n \div 2)

\* carries of the four low digits moved up
Carry(d) ==
    LET s5 == d[5]
        s4 == d[4] + (s5 \div Radix)
        s3 == d[3] + (s4 \div Radix)
        s2 == d[2] + (s3 \div Radix)
    IN <<d[1] + (s2 \div Radix), s2 % Radix, s3 % Radix, s4 % Radix, s5 % Radix>>

\* a / b for integers 0 < a <= b < 2^17, rounded to nearest, ties to even: long
\* division gives 53 bits of the quotient and the remainder decides the rounding
truediv(a, b) ==
    LET s  == ShiftTo(a, b)
        r0 == a * (2 ^ s) - b
        d2 == (r0 * Radix) \div b
        r2 == (r0 * Radix) % b
        d3 == (r2 * Radix) \div b
        r3 == (r2 * Radix) % b
        d4 == (r3 * Radix) \div b
        r4 == (r3 * Radix) % b
        d5 == (r4 * Radix) \div b
        r5 == (r4 * Radix) % b
        up == 2 * r5 > b \/ (2 * r5 = b /\ d5 % 2 = 1)
    IN [ d |-> Carry(<<1, d2, d3, d4, d5 + (IF up THEN 1 ELSE 0)>>), e |-> 0 - s ]

\* x * 100 for a float x, rounded to nearest, ties to even: the exact product
\* has BitLength(p[1]) + 52 bits, of which the low k are rounded away
times100(x) ==
    LET p    == Carry([i \in 1 .. 5 |-> 100 * x.d[i]])
        k    == BitLength(p[1]) - 1
        rem  == p[5] % (2 ^ k)
        half == 2 ^ (k - 1)
        up   == rem > half \/ (rem = half /\ (p[5] \div (2 ^ k)) % 2 = 1)
    IN [ d |-> Carry([p EXCEPT ![5] = p[5] - rem + (IF up THEN 2 ^ k ELSE 0)]),
         e |-> x.e ]

\* int(x) for a float x >= 1 * 2^x.e with x.e <= 0: the digits below d[1] are a
\* fraction of 2^52
int(x) == x.d[1] \div (2 ^ (0 - x.e))

\* line 80: int((lost_count / len(q)) * 100), for 0 <= lost_count <= n, n > 0
loss_rate(lost_count, n) ==
    IF lost_count = 0 THEN 0 ELSE int(times100(truediv(lost_count, n)))

\* data_writer at the top of its loop (line 74: data = {}); a carrier that has
\* no entry in data yet maps to NULL
IdleWriter ==
    [ pc |-> "test", i |-> 1, lost_count |-> 0,
      data |-> [c \in {"cu", "ct", "cm"} |-> NULL],
      lost |-> [c \in {"cu", "ct", "cm"} |-> 0],   \* lost_count used for data[c]
      len |-> [c \in {"cu", "ct", "cm"} |-> 0],    \* len(q) used for data[c]
      copyAt |-> [c \in {"cu", "ct", "cm"} |-> 0], \* appends to q before list(q)
      lenAt |-> [c \in {"cu", "ct", "cm"} |-> 0],  \* appends to q before len(q)
      passes |-> 0 ]                               \* turns of the loop completed

\* OUTPUT_FILE before its first open
NoFile ==
    [ state |-> "absent", data |-> IdleWriter.data, lost |-> IdleWriter.lost,
      len |-> IdleWriter.len, copyAt |-> IdleWriter.copyAt,
      lenAt |-> IdleWriter.lenAt ]

\* lines 128-134: get_ping_data prints the file if there is one, the three zeros
\* otherwise; text tells what was printed: the zeros of line 132, nothing (the
\* file was there with no content), or what json.dump had written
get_ping_data_output(file) ==
    CASE file.state = "absent" ->
            [ text |-> "default", data |-> [c \in {"cu", "ct", "cm"} |-> 0] ]
      [] file.state = "empty" ->
            [ text |-> "nothing", data |-> [c \in {"cu", "ct", "cm"} |-> NULL] ]
      [] OTHER -> [ text |-> "json", data |-> file.data ]

\* report_metrics has not run yet
NotRead == [ text |-> "unread", data |-> [c \in {"cu", "ct", "cm"} |-> NULL] ]

\* the loop of line 75 moves on to the next carrier, or to line 82
NextCarrier(wr) ==
    IF wr.i < Len(TARGETS) THEN [wr EXCEPT !.pc = "test", !.i = @ + 1]
    ELSE [wr EXCEPT !.pc = "open"]

\* one step of data_writer (lines 72-87) on st = [wr, file], reading the deques h
\* to which n[c] results have been appended; ok tells whether open() returns
WriterStep(st, h, n, ok) ==
    LET wr == st.wr
        c  == TARGETS[wr.i]
        q  == h[c]
    IN CASE wr.pc = "test" ->
              \* lines 76-77: if len(q) == 0: data[carrier] = 0
              IF Len(q) = 0
              THEN [st EXCEPT !.wr = NextCarrier(
                       [wr EXCEPT !.data[c] = 0, !.lost[c] = 0, !.len[c] = 0,
                                  !.copyAt[c] = n[c], !.lenAt[c] = n[c]])]
              ELSE [st EXCEPT !.wr.pc = "count"]
         [] wr.pc = "count" ->
              \* line 79: lost_count = list(q).count(False)
              [st EXCEPT !.wr.pc = "rate", !.wr.lost_count = count(q, FALSE),
                         !.wr.copyAt[c] = n[c]]
         [] wr.pc = "rate" ->
              \* lines 80-81: loss_rate = int((lost_count / len(q)) * 100)
              [st EXCEPT !.wr = NextCarrier(
                  [wr EXCEPT !.data[c] = loss_rate(wr.lost_count, Len(q)),
                             !.lost[c] = wr.lost_count, !.len[c] = Len(q),
                             !.lenAt[c] = n[c]])]
         [] wr.pc = "open" ->
              \* line 83: open(OUTPUT_FILE, 'w') truncates the file, or raises
              \* into the except of line 85
              IF ok THEN [st EXCEPT !.wr.pc = "dump", !.file.state = "empty"]
              ELSE [st EXCEPT !.wr.pc = "sleep"]
         [] wr.pc = "dump" ->
              \* line 84 and the end of the with: the text reaches the file
              [st EXCEPT !.wr.pc = "sleep",
                         !.file = [ state |-> "written", data |-> wr.data,
                                    lost |-> wr.lost, len |-> wr.len,
                                    copyAt |-> wr.copyAt, lenAt |-> wr.lenAt ]]
         [] OTHER ->
              \* line 87: time.sleep(5) is over, line 73 again
              [st EXCEPT !.wr = [IdleWriter EXCEPT !.passes = wr.passes + 1]]

\* data_writer run from where it is to its sleep with no append in between
RECURSIVE WriterPass(_, _, _)
WriterPass(st, h, n) ==
    IF st.wr.pc = "sleep" THEN st ELSE WriterPass(WriterStep(st, h, n, TRUE), h, n)

\* k times the result x
RECURSIVE Repeat(_, _)
Repeat(x, k) == IF k = 0 THEN <<>> ELSE <<x>> \o Repeat(x, k - 1)

\* the deques after every worker has appended s + f results: to "cu" s connects
\* then f failures, to "ct" f failures then s connects, to "cm" connects only
Windows(s, f) ==
    [ c \in {"cu", "ct", "cm"} |->
        CASE c = "cu" -> Repeat(TRUE, s) \o Repeat(FALSE, f)
          [] c = "ct" -> Repeat(FALSE, f) \o Repeat(TRUE, s)
          [] OTHER    -> Repeat(TRUE, s + f) ]

-----------------------------------------------------------------------------
(* The state one call touches, and putting it back                         *)

World(s) ==
    [ row |-> monitored_sites[s], hist |-> site_status_history[s],
      sent |-> notifications[s], ev |-> evals[s] ]

Put(s, w) ==
    /\ monitored_sites' = [monitored_sites EXCEPT ![s] = w.row]
    /\ site_status_history' = [site_status_history EXCEPT ![s] = w.hist]
    /\ notifications' = [notifications EXCEPT ![s] = w.sent]
    /\ evals' = [evals EXCEPT ![s] = w.ev]
    /\ overlapping' = overlapping

\* the same for the call another invocation has made for endpoint s
OverlappingWorld(s) ==
    [ row |-> monitored_sites[s], hist |-> site_status_history[s],
      sent |-> notifications[s], ev |-> overlapping[s] ]

PutOverlapping(s, w) ==
    /\ monitored_sites' = [monitored_sites EXCEPT ![s] = w.row]
    /\ site_status_history' = [site_status_history EXCEPT ![s] = w.hist]
    /\ notifications' = [notifications EXCEPT ![s] = w.sent]
    /\ overlapping' = [overlapping EXCEPT ![s] = w.ev]
    /\ evals' = evals

\* a row as POST /api/admin/sites inserts it (lines 719-722; lines 36-48 for the
\* defaults), with any last_status a deployment older than the
\* last_notified_down_at column (line 95) may have left
Row(st) ==
    [ url |-> "url", name |-> "name", added_at |-> 0, sort_order |-> 0,
      last_checked |-> NULL, last_status |-> st, last_status_code |-> NULL,
      last_response_time_ms |-> NULL, last_notified_down_at |-> NULL ]

\* the host side of the Worker: the channel, the servers, each with one of the
\* given last_notified_down_at, and no metrics yet
InitHosts(configs, hosts, stamps) ==
    /\ telegram_config \in configs
    /\ dispatch = IdleDispatch
    /\ \E at \in [hosts -> stamps] :
          servers = [h \in hosts |->
                       [ServerRow(h) EXCEPT !.last_notified_down_at = at[h]]]
    /\ metrics = {}
    /\ report = NoReport(hosts)
    /\ watch = [h \in hosts |-> IdleWatch]

\* ping_daemon.py with the deques of one of the given <<s, f>> and data_writer
\* at the top of its loop; the workers may append budget more results
InitDaemon(sf, budget) ==
    /\ history \in { Windows(w[1], w[2]) : w \in sf }
    /\ pushed = [log |-> history, left |-> budget]
    /\ writer = IdleWriter
    /\ output_file = NoFile
    /\ ping_data = NotRead

\* the endpoints of the scheduler
InitSites(n, statuses, triggers) ==
    /\ now = 0
    /\ monitored_sites \in [1 .. n -> {Row(st) : st \in statuses}]
    /\ site_status_history = [s \in 1 .. n |-> <<>>]
    /\ notifications = [s \in 1 .. n |-> <<>>]
    /\ evals = [s \in 1 .. n |-> IdleEval]
    /\ overlapping = [s \in 1 .. n |-> IdleEval]
    /\ sched = [pc |-> "idle", sitesToCheck |-> <<>>, next |-> 1,
                sitePromises |-> {}, triggersLeft |-> triggers, started |-> [s \in 1 .. n |-> 0]]

\* n endpoints, a configured channel, no server; the daemon has just started
InitWith(n, statuses, triggers) ==
    /\ InitSites(n, statuses, triggers)
    /\ InitHosts({ConfiguredChannel}, {}, {NULL})
    /\ InitDaemon({<<0, 0>>}, 0)

\* one endpoint, followed through MaxTriggers triggers
Init == InitWith(1, STATUSES, MaxTriggers)

-----------------------------------------------------------------------------
(* The steps of one checkWebsiteStatus call                                *)

\* the SELECT of lines 1149-1150 returns or throws
ReadStep(s, ok) ==
    /\ evals[s].pc = "read"
    /\ Put(s, ReadPrevious(World(s), ok))
    /\ UNCHANGED <<now, sched, hostVars, pingVars>>

\* the fetch of line 1162 settles; lines 1163-1208 follow without an await
FetchStep(s, o) ==
    /\ evals[s].pc = "fetch"
    /\ Put(s, FetchAndDecide(World(s), o, now))
    /\ UNCHANGED <<now, sched, hostVars, pingVars>>

\* the db.batch of line 1218 returns or throws
WriteStep(s, ok) ==
    /\ evals[s].pc = "write"
    /\ Put(s, WriteBack(World(s), ok))
    /\ UNCHANGED <<now, sched, hostVars, pingVars>>

\* the same three steps of the call another invocation has made for endpoint s
OverlappingReadStep(s, ok) ==
    /\ overlapping[s].pc = "read"
    /\ PutOverlapping(s, ReadPrevious(OverlappingWorld(s), ok))
    /\ UNCHANGED <<now, sched, hostVars, pingVars>>

OverlappingFetchStep(s, o) ==
    /\ overlapping[s].pc = "fetch"
    /\ PutOverlapping(s, FetchAndDecide(OverlappingWorld(s), o, now))
    /\ UNCHANGED <<now, sched, hostVars, pingVars>>

OverlappingWriteStep(s, ok) ==
    /\ overlapping[s].pc = "write"
    /\ PutOverlapping(s, WriteBack(OverlappingWorld(s), ok))
    /\ UNCHANGED <<now, sched, hostVars, pingVars>>

\* line 1266 reached for endpoint s by a scheduled() invocation other than the
\* one sched follows (the cron fires again while the work handed to waitUntil at
\* line 1251 is still going on); of that invocation only this call is followed
OverlappingRun(s) ==
    /\ overlapping[s].pc \in {"idle", "done"}
    /\ overlapping[s].calls < MaxOverlaps
    /\ overlapping' = [overlapping EXCEPT ![s] = StartEval(OverlappingWorld(s))]
    /\ UNCHANGED <<now, monitored_sites, site_status_history, evals, notifications,
                   sched, hostVars, pingVars>>

\* f with x mapped to v, x a new element of its domain or not
Extended(f, x, v) == [y \in DOMAIN f \cup {x} |-> IF y = x THEN v ELSE f[y]]

\* ImmediateCheck with lines 738-743 left out: no call is made
ImmediateCheckSkipped(row) == IdleEval

\* lines 738-743: checkWebsiteStatus(newSiteForCheck, env.DB, ctx) for the row
\* just inserted runs to its first await
ImmediateCheck(row) ==
    StartEval([ row |-> row, hist |-> <<>>, sent |-> <<>>, ev |-> IdleEval ])

\* POST /api/admin/sites, lines 703-747: a body without a valid url is answered
\* 400; a SELECT MAX or INSERT that throws ends in the catch of line 747 with
\* nothing inserted; otherwise the row is inserted with last_status PENDING and
\* checkWebsiteStatus is called for it at line 739, not awaited
AddSite(valid, ok) ==
    /\ Cardinality(DOMAIN monitored_sites) < MaxSites
    /\ LET siteId == Cardinality(DOMAIN monitored_sites) + 1
           orders == { monitored_sites[s].sort_order : s \in DOMAIN monitored_sites }
           nextSortOrder ==
               IF orders = {} THEN 0
               ELSE 1 + CHOOSE m \in orders : \A k \in orders : k <= m
           row == [Row("PENDING") EXCEPT !.added_at = now,
                                         !.sort_order = nextSortOrder]
       IN IF valid /\ ok
          THEN /\ monitored_sites' = Extended(monitored_sites, siteId, row)
               /\ site_status_history' = Extended(site_status_history, siteId, <<>>)
               /\ notifications' = Extended(notifications, siteId, <<>>)
               /\ evals' = Extended(evals, siteId, IdleEval)
               /\ overlapping' = Extended(overlapping, siteId, ImmediateCheck(row))
               /\ sched' = [sched EXCEPT !.started = Extended(@, siteId, 0)]
          ELSE UNCHANGED <<monitored_sites, site_status_history, notifications,
                           evals, overlapping, sched>>
    /\ UNCHANGED <<now, hostVars, pingVars>>

\* the three steps of one call taken together
RunCheck(s, rok, o, wok) ==
    /\ evals[s].pc = "read"
    /\ Put(s, WriteBack(FetchAndDecide(ReadPrevious(World(s), rok), o, now), wok))
    /\ UNCHANGED <<now, sched, hostVars, pingVars>>

-----------------------------------------------------------------------------
(* scheduled(): lines 1249-1339                                            *)

Min(a, b) == IF a < b THEN a ELSE b

\* lines 1258-1259: SELECT id, url, name FROM monitored_sites
LoadSites == [i \in 1 .. Cardinality(DOMAIN monitored_sites) |-> i]

\* the cron trigger fires; lines 1250-1263, and line 1277 when there are no sites
Trigger ==
    /\ sched.pc = "idle"
    /\ sched.triggersLeft > 0
    /\ sched' = [sched EXCEPT
                   !.pc = IF Len(LoadSites) > 0 THEN "loop" ELSE "vps",
                   !.sitesToCheck = LoadSites, !.next = 1, !.sitePromises = {},
                   !.triggersLeft = @ - 1,
                   !.started = [s \in DOMAIN sched.started |-> 0]]
    /\ UNCHANGED <<now, monitored_sites, site_status_history, evals, overlapping,
                   notifications,
                   hostVars, pingVars>>

\* BatchSize with line 1267 testing sitePromises.length > siteConcurrencyLimit
BatchSizeOffByOne(remaining) == Min(siteConcurrencyLimit + 1, remaining)

\* BatchSize with lines 1267-1270 left out: the loop pushes every call
BatchSizeUnbounded(remaining) == remaining

\* how many calls the loop of lines 1265-1271 pushes before it awaits
BatchSize(remaining) == Min(siteConcurrencyLimit, remaining)

\* lines 1265-1267: the loop pushes calls, each running to its first await, until
\* sitePromises holds siteConcurrencyLimit of them or the sites are exhausted
LaunchBatch ==
    /\ sched.pc = "loop"
    /\ LET n == BatchSize(Len(sched.sitesToCheck) - sched.next + 1)
           batch == { sched.sitesToCheck[i] : i \in sched.next .. sched.next + n - 1 }
       IN /\ evals' = [s \in DOMAIN evals |->
                        IF s \in batch THEN StartEval(World(s)) ELSE evals[s]]
          /\ sched' = [sched EXCEPT
                         !.pc = "await", !.next = @ + n,
                         !.sitePromises = sched.sitePromises \cup batch,
                         !.started = [s \in DOMAIN sched.started |->
                                        IF s \in batch THEN @[s] + 1 ELSE @[s]]]
    /\ UNCHANGED <<now, monitored_sites, site_status_history, overlapping,
                   notifications, hostVars, pingVars>>

\* lines 1268-1269 and 1272-1274: Promise.all(sitePromises) fulfils when every call
\* has fulfilled and rejects as soon as one has rejected (the catch of line 1334
\* then ends the trigger)
AwaitBatch ==
    /\ sched.pc = "await"
    /\ IF \E s \in sched.sitePromises : evals[s].settled = "rejected"
       THEN sched' = [sched EXCEPT !.pc = "caught", !.sitePromises = {}]
       ELSE /\ \A s \in sched.sitePromises : evals[s].settled = "fulfilled"
            /\ sched' = [sched EXCEPT
                           !.pc = IF sched.next <= Len(sched.sitesToCheck)
                                  THEN "loop" ELSE "vps",
                           !.sitePromises = {}]
    /\ UNCHANGED <<now, monitored_sites, site_status_history, evals, overlapping,
                   notifications,
                   hostVars, pingVars>>

\* the staleness of section 4.3 for server h at time t: no metrics ever received,
\* or the last metrics older than 5 minutes
Silent(h, t) ==
    \A m \in metrics : m.server_id = h => t - m.timestamp > 300

\* what is kept of a pass: w is watch[h], rok tells whether the SELECTs returned,
\* ran whether the loop of line 1305 ran, rows how many rows it had for h, row is
\* the row of h, d is Watchdog's result on it, ap whether the UPDATE was applied,
\* t is nowSeconds; the rule of lines 1183-1208 is run beside it on status
\* (stale as DOWN, fresh as UP)
Watched(w, rok, ran, rows, row, d, ap, t, status) ==
    LET e   == Engine(w.enginePrev, w.engineAt, status, t)
        off == ran /\ d.notify = "offline"
        on  == ran /\ d.notify = "online"
    IN [ triggers |-> w.triggers + 1,
         at |-> t,
         reads |-> rok,
         evaluated |-> IF ran THEN rows ELSE 0,
         seen |-> IF ran THEN row.last_report ELSE NULL,
         stamp |-> IF ran THEN row.last_notified_down_at ELSE NULL,
         stale |-> ran /\ d.stale,
         notify |-> IF ran THEN d.notify ELSE "none",
         update |-> IF ran /\ d.update
                    THEN (IF ap THEN "applied" ELSE "failed") ELSE "none",
         offlineAt |-> IF off THEN t ELSE IF on THEN NULL ELSE w.offlineAt,
         stored |-> IF off THEN ap ELSE IF on THEN FALSE ELSE w.stored,
         prevOfflineAt |-> IF off THEN w.offlineAt
                           ELSE IF on THEN NULL ELSE w.prevOfflineAt,
         prevStored |-> IF off THEN w.stored
                        ELSE IF on THEN FALSE ELSE w.prevStored,
         enginePrev |-> status, engineAt |-> e.at, engineNotify |-> e.notify,
         inStep |-> w.inStep /\ ran /\ (d.update => ap) ]

\* lines 1280-1337: the VPS pass, then the handler's work is over.  rok tells
\* whether the SELECTs of lines 1283 and 1294 return rather than throw into the
\* catch of line 1334; applied[h] whether the UPDATE handed to waitUntil for
\* server h (lines 1316, 1326) is applied
FinishTrigger(rok, applied) ==
    /\ sched.pc \in {"vps", "caught"}
    /\ sched' = [sched EXCEPT !.pc = "idle"]
    /\ LET ran  == sched.pc = "vps" /\ rok /\ ~NotConfigured(telegram_config)
           R(h) == [ last_report |-> CHOOSE t \in JoinRows(h) : TRUE,
                     last_notified_down_at |-> servers[h].last_notified_down_at ]
           D(h) == Watchdog(R(h).last_report, R(h).last_notified_down_at, now)
       IN /\ servers' = [h \in DOMAIN servers |->
                           IF ran /\ D(h).update /\ applied[h]
                           THEN [servers[h] EXCEPT !.last_notified_down_at = D(h).at]
                           ELSE servers[h]]
          /\ watch' = [h \in DOMAIN servers |->
                         Watched(watch[h], rok, ran, Cardinality(JoinRows(h)),
                                 R(h), D(h), applied[h], now,
                                 IF Silent(h, now) THEN "DOWN" ELSE "UP")]
    /\ UNCHANGED <<now, monitored_sites, site_status_history, evals, overlapping,
                   notifications,
                   telegram_config, dispatch, metrics, report, pingVars>>

\* time passes between two triggers (a check lasts seconds, its fetch at most
\* 15 s; the steps are of the order of the cooldown)
Tick(d) ==
    /\ sched.pc = "idle"
    /\ now + d <= MaxTime
    /\ now' = now + d
    /\ UNCHANGED <<monitored_sites, site_status_history, evals, overlapping,
                   notifications, sched,
                   hostVars, pingVars>>

-----------------------------------------------------------------------------
(* The steps of one sendTelegramNotification call                          *)

\* ctx.waitUntil(sendTelegramNotification(db, message)): lines 1107-1110
Invoke(message) ==
    /\ dispatch.pc \in {"idle", "done"}
    /\ dispatch.invoked < MaxInvocations
    /\ dispatch' = StartDispatch(dispatch, message)
    /\ UNCHANGED <<siteVars, telegram_config, servers, metrics, report, watch, pingVars>>

\* the SELECT of line 1110 returns or throws
ConfigStep(ok) ==
    /\ dispatch.pc = "read"
    /\ dispatch' = ReadConfig(dispatch, telegram_config, ok)
    /\ UNCHANGED <<siteVars, telegram_config, servers, metrics, report, watch, pingVars>>

\* the fetch of line 1118 settles
TelegramStep(o) ==
    /\ dispatch.pc = "fetch"
    /\ dispatch' = FetchSettled(dispatch, o)
    /\ UNCHANGED <<siteVars, telegram_config, servers, metrics, report, watch, pingVars>>

\* response.json() of line 1128 settles
JsonStep(ok) ==
    /\ dispatch.pc = "json"
    /\ dispatch' = JsonSettled(dispatch, ok)
    /\ UNCHANGED <<siteVars, telegram_config, servers, metrics, report, watch, pingVars>>

-----------------------------------------------------------------------------
(* POST /api/report/:id: lines 455-525                                     *)

Report(serverId, apiKey, reportData, sok, parses, wok) ==
    /\ LET status == ReportStatus(serverId, apiKey, reportData, sok, parses, wok)
       IN /\ metrics' = IF status = 200
                        THEN ReplaceInto(metrics, MetricsRow(serverId, reportData))
                        ELSE metrics
          /\ report' = [ serverId |-> serverId, apiKey |-> apiKey,
                         status |-> status, body |-> reportData,
                         repeat |-> /\ status = 200
                                    /\ report.accepted[serverId] = reportData,
                         accepted |-> IF status = 200
                                      THEN [report.accepted EXCEPT ![serverId] = reportData]
                                      ELSE report.accepted ]
    /\ UNCHANGED <<siteVars, telegram_config, dispatch, servers, watch, pingVars>>

-----------------------------------------------------------------------------
(* ping_daemon.py: the threads                                             *)

\* lines 66-70: worker(carrier, host) gets result from tcp_ping and appends it
worker(carrier, result) ==
    /\ pushed.left > 0
    /\ history' = [history EXCEPT ![carrier] = append(@, result)]
    /\ pushed' = [ log |-> [pushed.log EXCEPT ![carrier] = Append(@, result)],
                   left |-> pushed.left - 1 ]
    /\ UNCHANGED <<siteVars, hostVars, writer, output_file, ping_data>>

\* lines 72-87: data_writer takes one step
data_writer(ok) ==
    /\ writer.pc = "sleep" => writer.passes + 1 < MaxWriterPasses
    /\ LET st == WriterStep([wr |-> writer, file |-> output_file], history,
                            [c \in DOMAIN history |-> Len(pushed.log[c])], ok)
       IN /\ writer' = st.wr
          /\ output_file' = st.file
    /\ UNCHANGED <<siteVars, hostVars, history, pushed, ping_data>>

\* lines 73-86 with no worker running in between and open() returning
DataWriterPass ==
    /\ writer.pc = "test" /\ writer.i = 1
    /\ LET st == WriterPass([wr |-> writer, file |-> output_file], history,
                            [c \in DOMAIN history |-> Len(pushed.log[c])])
       IN /\ writer' = st.wr
          /\ output_file' = st.file
    /\ UNCHANGED <<siteVars, hostVars, history, pushed, ping_data>>

\* line 191 of the installer: report_metrics runs ping=$(get_ping_data)
get_ping_data ==
    /\ ping_data' = get_ping_data_output(output_file)
    /\ UNCHANGED <<siteVars, hostVars, history, writer, output_file, pushed>>

-----------------------------------------------------------------------------
Next ==
    \/ Trigger
    \/ LaunchBatch
    \/ AwaitBatch
    \/ \E rok \in BOOLEAN, applied \in [DOMAIN servers -> BOOLEAN] :
          FinishTrigger(rok, applied)
    \/ \E s \in DOMAIN evals, ok \in BOOLEAN : ReadStep(s, ok)
    \/ \E s \in DOMAIN evals, o \in FetchOutcomes : FetchStep(s, o)
    \/ \E s \in DOMAIN evals, ok \in BOOLEAN : WriteStep(s, ok)
    \/ \E d \in TimeSteps : Tick(d)

Spec == Init /\ [][Next]_vars

\* NumSitesSched new endpoints and one trigger
InitSched == InitWith(NumSitesSched, {"PENDING"}, 1)

NextSched ==
    \/ Trigger
    \/ LaunchBatch
    \/ AwaitBatch
    \/ \E rok \in BOOLEAN, applied \in [DOMAIN servers -> BOOLEAN] :
          FinishTrigger(rok, applied)
    \/ \E s \in DOMAIN evals : \E in \in SchedInputs(s) :
          RunCheck(s, in[1], in[2], in[3])

SchedSpec == InitSched /\ [][NextSched]_vars

-----------------------------------------------------------------------------
(* sendTelegramNotification alone, under every content of telegram_config  *)

InitDispatch ==
    /\ InitSites(0, {"PENDING"}, 0)
    /\ InitHosts(TelegramConfigs, {}, {NULL})
    /\ InitDaemon({<<0, 0>>}, 0)

NextDispatch ==
    \/ \E message \in Messages : Invoke(message)
    \/ \E ok \in BOOLEAN : ConfigStep(ok)
    \/ \E o \in TelegramOutcomes : TelegramStep(o)
    \/ \E ok \in BOOLEAN : JsonStep(ok)

DispatchSpec == InitDispatch /\ [][NextDispatch]_vars

-----------------------------------------------------------------------------
(* POST /api/report/:id alone: two servers, either of them announced as     *)
(* down or not, reports for them and for a server that does not exist       *)

InitIngest ==
    /\ InitSites(0, {"PENDING"}, 0)
    /\ InitHosts({ConfiguredChannel}, {1, 2}, {NULL, 50})
    /\ InitDaemon({<<0, 0>>}, 0)

\* at most one of the three awaits of the handler throws
NextIngest ==
    \E serverId \in {1, 2, 3}, apiKey \in {NULL, 101, 102},
       fault \in {"none", "select", "json", "replace"} :
        \E reportData \in ReportBodies(100) :
            Report(serverId, apiKey, reportData,
                   fault # "select", fault # "json", fault # "replace")

IngestSpec == InitIngest /\ [][NextIngest]_vars

-----------------------------------------------------------------------------
(* scheduled() with its VPS pass: one endpoint and two servers, of which    *)
(* server 1 reports now and then and server 2 never does; the channel is    *)
(* configured, disabled or absent                                          *)

\* the times at which something happens: a report at 100 is 300 s old at 400;
\* a message of time 0 is 3600 s old at 3600
WatchInstants == {100, 400, 401, 3600, 3601, 3800}

WatchConfigs ==
    { ConfiguredChannel, { TelegramRow(1, 1, 0) }, { TelegramRow(NULL, 1, 1) },
      { TelegramRow(1, NULL, 1) }, {} }

\* the inputs <<SELECT returns, fetch outcome, db.batch returns>> of the endpoint
WatchInputs == { <<TRUE, Response(200), TRUE>>, <<TRUE, Response(500), TRUE>> }

InitWatch ==
    /\ InitSites(1, {"PENDING"}, 2)
    /\ InitHosts(WatchConfigs, {1, 2}, {NULL})
    /\ InitDaemon({<<0, 0>>}, 0)

NextWatch ==
    \/ Trigger
    \/ LaunchBatch
    \/ AwaitBatch
    \/ \E rok \in BOOLEAN, applied \in [DOMAIN servers -> BOOLEAN] :
          FinishTrigger(rok, applied)
    \/ \E s \in DOMAIN evals : \E in \in WatchInputs :
          RunCheck(s, in[1], in[2], in[3])
    \/ \E t \in WatchInstants : t > now /\ Tick(t - now)
    \/ /\ sched.pc = "idle"
       /\ Report(1, 101, Body(RequiredKeys \cup {"ping"}, now, 5, SomePing),
                 TRUE, TRUE, TRUE)

WatchSpec == InitWatch /\ [][NextWatch]_vars

-----------------------------------------------------------------------------
(* One check of one endpoint, the fetch answering with any status code      *)

StatusCodes == 100 .. 599

AllFetchOutcomes == { Response(c) : c \in StatusCodes } \cup { TimedOut, Failed }

InitCheck == InitWith(1, {"PENDING", "UP", "DOWN"}, 1)

NextCheck ==
    \/ Trigger
    \/ LaunchBatch
    \/ AwaitBatch
    \/ \E rok \in BOOLEAN, applied \in [DOMAIN servers -> BOOLEAN] :
          FinishTrigger(rok, applied)
    \/ \E s \in DOMAIN evals, ok \in BOOLEAN : ReadStep(s, ok)
    \/ \E s \in DOMAIN evals, o \in AllFetchOutcomes : FetchStep(s, o)
    \/ \E s \in DOMAIN evals, ok \in BOOLEAN : WriteStep(s, ok)

CheckSpec == InitCheck /\ [][NextCheck]_vars

-----------------------------------------------------------------------------
(* Two scheduled() invocations that overlap: one endpoint that was up, the   *)
(* invocation followed through two triggers, and beside it calls made for    *)
(* the endpoint by another invocation, whose SELECT and db.batch return      *)

InitOverlap == InitWith(1, {"UP"}, 2)

\* the fetch outcomes drawn: one that is UP and one that is DOWN
OverlapOutcomes == { Response(200), Response(500) }

NextOverlap ==
    \/ Trigger
    \/ LaunchBatch
    \/ AwaitBatch
    \/ \E rok \in BOOLEAN, applied \in [DOMAIN servers -> BOOLEAN] :
          FinishTrigger(rok, applied)
    \/ \E s \in DOMAIN evals, ok \in BOOLEAN : ReadStep(s, ok)
    \/ \E s \in DOMAIN evals, o \in OverlapOutcomes : FetchStep(s, o)
    \/ \E s \in DOMAIN evals, ok \in BOOLEAN : WriteStep(s, ok)
    \/ \E s \in DOMAIN evals : OverlappingRun(s)
    \/ \E s \in DOMAIN evals : OverlappingReadStep(s, TRUE)
    \/ \E s \in DOMAIN evals, o \in OverlapOutcomes : OverlappingFetchStep(s, o)
    \/ \E s \in DOMAIN evals : OverlappingWriteStep(s, TRUE)
    \/ \E d \in TimeSteps : Tick(d)

OverlapSpec == InitOverlap /\ [][NextOverlap]_vars

-----------------------------------------------------------------------------------------------------------------------------------------------------
(* POST /api/admin/sites and the cron trigger: siteConcurrencyLimit - 1      *)
(* endpoints that are up, and endpoints added beside them.  The checks of    *)
(* the old endpoints are taken in one step each, in the order of their ids,  *)
(* and answer 200 (checks of different rows commute); those of an added      *)
(* endpoint are followed await by await                                     *)

InitCreate == InitWith(siteConcurrencyLimit - 1, {"UP"}, 1)

NextCreate ==
    \/ \E valid \in BOOLEAN, ok \in BOOLEAN : AddSite(valid, ok)
    \/ Trigger
    \/ LaunchBatch
    \/ AwaitBatch
    \/ \E rok \in BOOLEAN, applied \in [DOMAIN servers -> BOOLEAN] :
          FinishTrigger(rok, applied)
    \/ \E s \in 1 .. siteConcurrencyLimit - 1 :
          /\ \A r \in 1 .. s - 1 : evals[r].pc # "read"
          /\ RunCheck(s, TRUE, Response(200), TRUE)
    \/ \E s \in DOMAIN evals, ok \in BOOLEAN :
          s >= siteConcurrencyLimit /\ ReadStep(s, ok)
    \/ \E s \in DOMAIN evals, o \in OverlapOutcomes :
          s >= siteConcurrencyLimit /\ FetchStep(s, o)
    \/ \E s \in DOMAIN evals, ok \in BOOLEAN :
          s >= siteConcurrencyLimit /\ WriteStep(s, ok)
    \/ \E s \in DOMAIN evals, ok \in BOOLEAN : OverlappingReadStep(s, ok)
    \/ \E s \in DOMAIN evals, o \in OverlapOutcomes : OverlappingFetchStep(s, o)
    \/ \E s \in DOMAIN evals, ok \in BOOLEAN : OverlappingWriteStep(s, ok)

CreateSpec == InitCreate /\ [][NextCreate]_vars

-----------------------------------------------------------------------------
(* The checks of one endpoint together with the sendTelegramNotification    *)
(* calls they make, the channel usable or not                               *)

\* telegram_config as the calls find it: usable, switched off, without token
DeliverConfigs ==
    { ConfiguredChannel, { TelegramRow(1, 1, 0) }, { TelegramRow(NULL, 1, 1) } }

\* lines 1190, 1197, 1206: the call sendTelegramNotification(db, message) for
\* the next message endpoint s handed to ctx.waitUntil; the calls are followed
\* one after the other
Deliver(s) ==
    /\ dispatch.pc \in {"idle", "done"}
    /\ dispatch.invoked < Len(notifications[s])
    /\ dispatch' = StartDispatch(dispatch, notifications[s][dispatch.invoked + 1].kind)
    /\ UNCHANGED <<siteVars, telegram_config, servers, metrics, report, watch, pingVars>>

InitDeliver ==
    /\ InitSites(1, {"UP"}, MaxTriggers)
    /\ InitHosts(DeliverConfigs, {}, {NULL})
    /\ InitDaemon({<<0, 0>>}, 0)

NextDeliver ==
    \/ Trigger
    \/ LaunchBatch
    \/ AwaitBatch
    \/ \E rok \in BOOLEAN, applied \in [DOMAIN servers -> BOOLEAN] :
          FinishTrigger(rok, applied)
    \/ \E s \in DOMAIN evals, ok \in BOOLEAN : ReadStep(s, ok)
    \/ \E s \in DOMAIN evals, o \in OverlapOutcomes : FetchStep(s, o)
    \/ \E s \in DOMAIN evals, ok \in BOOLEAN : WriteStep(s, ok)
    \/ \E s \in DOMAIN evals : Deliver(s)
    \/ \E ok \in BOOLEAN : ConfigStep(ok)
    \/ \E o \in TelegramOutcomes : TelegramStep(o)
    \/ \E ok \in BOOLEAN : JsonStep(ok)
    \/ \E d \in TimeSteps : Tick(d)

DeliverSpec == InitDeliver /\ [][NextDeliver]_vars

-----------------------------------------------------------------------------
(* What the claims speak about                                             *)

\* the call for endpoint s has taken its decision (lines 1183-1208)
Decided(s) == evals[s].pc \in {"write", "done"}

\* the call for endpoint s has returned
Done(s) == evals[s].pc = "done"

\* the sendTelegramNotification calls the current call for s has made
SentBy(s) ==
    SubSeq(notifications[s], evals[s].sentBefore + 1, Len(notifications[s]))

Message(kind, t) == [kind |-> kind, at |-> t]

\* the row of endpoint s carries the result of its current call
RowHoldsResult(s) ==
    /\ monitored_sites[s].last_status = evals[s].newStatus
    /\ monitored_sites[s].last_status_code = evals[s].newStatusCode
    /\ monitored_sites[s].last_response_time_ms = evals[s].newResponseTime
    /\ monitored_sites[s].last_checked = evals[s].checkTime

\* the history row of the current call of s
EventOf(s) ==
    [ timestamp |-> evals[s].checkTime, status |-> evals[s].newStatus,
      status_code |-> evals[s].newStatusCode,
      response_time_ms |-> evals[s].newResponseTime ]

StatusesOf(h) == [i \in DOMAIN h |-> h[i].status]

-----------------------------------------------------------------------------
(* C1  first failure                                                       *)

\* C1 as stated: a check whose persisted previous status is UP or PENDING and
\* whose new status is DOWN, TIMEOUT or ERROR triggers exactly one "down"
\* notification and, once it has returned, last_notified_down_at is its checkTime.
C1_AsStated ==
    \A s \in DOMAIN evals :
        (Done(s) /\ evals[s].persistedStatus \notin FAILING
                 /\ evals[s].newStatus \in FAILING)
        => /\ SentBy(s) = <<Message("down", evals[s].checkTime)>>
           /\ monitored_sites[s].last_notified_down_at = evals[s].checkTime

\* C1 amended: such a check triggers exactly one "down" notification; when its
\* db.batch is applied last_notified_down_at is its checkTime, and when db.batch
\* throws last_notified_down_at is what it was.
C1_FirstFailure ==
    \A s \in DOMAIN evals :
        (Decided(s) /\ evals[s].persistedStatus \notin FAILING
                    /\ evals[s].newStatus \in FAILING)
        => /\ SentBy(s) = <<Message("down", evals[s].checkTime)>>
           /\ evals[s].newSiteLastNotifiedDownAt = evals[s].checkTime
           /\ Done(s) =>
                monitored_sites[s].last_notified_down_at =
                    IF evals[s].wrote THEN evals[s].checkTime
                    ELSE evals[s].persistedNotifiedAt

\* Scenario A: checks UP, UP, DOWN(500) of a new endpoint: one "down"
\* notification, three history rows, last_status DOWN
C1_Witness ==
    \E s \in DOMAIN evals :
        /\ Done(s) /\ evals[s].wrote /\ evals[s].calls = 3
        /\ StatusesOf(site_status_history[s]) = <<"UP", "UP", "DOWN">>
        /\ evals[s].newStatusCode = 500
        /\ notifications[s] = <<Message("down", evals[s].checkTime)>>
        /\ monitored_sites[s].last_status = "DOWN"
        /\ monitored_sites[s].last_notified_down_at = evals[s].checkTime

-----------------------------------------------------------------------------
(* C2  cooldown                                                            *)

\* C2 as stated: while an endpoint stays failing, at most one notification is
\* triggered in any rolling window of 3600 s. Here: a check that finds the row
\* failing and stamped (a notification of the current run was triggered at the
\* stamp) and has a failing result triggers a notification only when more than
\* 3600 s have passed since the stamp.
C2_AtMostOnePerHour ==
    \A s \in DOMAIN evals :
        (Decided(s) /\ evals[s].persistedStatus \in FAILING
                    /\ evals[s].newStatus \in FAILING
                    /\ evals[s].persistedNotifiedAt # NULL
                    /\ SentBy(s) # <<>>)
        => evals[s].checkTime - evals[s].persistedNotifiedAt > 3600

-----------------------------------------------------------------------------
(* C3  repeated failure                                                    *)

\* C3 as stated: on a repeated failure (the row failing, the result failing) a
\* notification is triggered if and only if last_notified_down_at is null or
\* checkTime - last_notified_down_at > 3600; when one is triggered the stamp
\* written is checkTime, otherwise the stamp is left as it was. (A db.batch that
\* throws is left aside here: the statement speaks of the applied write.)
C3_RepeatedFailure ==
    \A s \in DOMAIN evals :
        (Decided(s) /\ evals[s].persistedStatus \in FAILING
                    /\ evals[s].newStatus \in FAILING)
        => LET due == \/ evals[s].persistedNotifiedAt = NULL
                      \/ evals[s].checkTime - evals[s].persistedNotifiedAt > 3600
           IN /\ (SentBy(s) # <<>>) <=> due
              /\ Len(SentBy(s)) <= 1
              /\ (Done(s) /\ evals[s].wrote) =>
                    monitored_sites[s].last_notified_down_at =
                        IF due THEN evals[s].checkTime
                        ELSE evals[s].persistedNotifiedAt

-----------------------------------------------------------------------------
(* C4  recovery                                                            *)

\* C4 as stated: a check that finds the row failing and has the result UP
\* triggers exactly one "recovered" notification and writes the stamp null.
\* (A db.batch that throws is left aside here, as in C3.)
C4_Recovery ==
    \A s \in DOMAIN evals :
        (Decided(s) /\ evals[s].persistedStatus \in FAILING
                    /\ evals[s].newStatus = "UP")
        => /\ SentBy(s) = <<Message("recovered", evals[s].checkTime)>>
           /\ (Done(s) /\ evals[s].wrote) =>
                 monitored_sites[s].last_notified_down_at = NULL

-----------------------------------------------------------------------------
(* C5  healthy stays healthy                                               *)

\* C5: a check that finds the row PENDING or UP and has the result UP triggers
\* no notification, and last_notified_down_at is after it what it was before.
C5_NoNotification ==
    \A s \in DOMAIN evals :
        (Decided(s) /\ evals[s].persistedStatus \in {"PENDING", "UP"}
                    /\ evals[s].newStatus = "UP")
        => /\ SentBy(s) = <<>>
           /\ monitored_sites[s].last_notified_down_at = evals[s].persistedNotifiedAt

\* a new endpoint answered 200 and then 404: two checks, both UP, nothing sent
C5_Witness ==
    \E s \in DOMAIN evals :
        /\ Done(s) /\ evals[s].wrote /\ evals[s].calls = 2
        /\ evals[s].persistedStatus = "UP" /\ evals[s].newStatusCode = 404
        /\ StatusesOf(site_status_history[s]) = <<"UP", "UP">>
        /\ notifications[s] = <<>>

-----------------------------------------------------------------------------
(* C6  PENDING                                                             *)

\* C6 as stated: a check that finds the row PENDING never triggers a
\* notification, whatever its result.
C6_AsStated ==
    \A s \in DOMAIN evals :
        (Decided(s) /\ evals[s].persistedStatus = "PENDING") => SentBy(s) = <<>>

\* C6 amended: a check that finds the row PENDING triggers no notification when
\* its result is UP, and exactly one "down" notification when its result is
\* DOWN, TIMEOUT or ERROR (PENDING counts as not failing).
C6_Pending ==
    \A s \in DOMAIN evals :
        (Decided(s) /\ evals[s].persistedStatus = "PENDING")
        => SentBy(s) = IF evals[s].newStatus \in FAILING
                       THEN <<Message("down", evals[s].checkTime)>>
                       ELSE <<>>

\* the first check of a new endpoint timed out and a "down" message was sent
C6_Witness ==
    \E s \in DOMAIN evals :
        /\ Done(s) /\ evals[s].wrote /\ evals[s].calls = 1
        /\ evals[s].persistedStatus = "PENDING" /\ evals[s].newStatus = "TIMEOUT"
        /\ notifications[s] = <<Message("down", evals[s].checkTime)>>

-----------------------------------------------------------------------------
(* C7  the stamp                                                           *)

\* the history rows of the current unbroken run of failing statuses
CurrentRun(h) ==
    { i \in DOMAIN h : \A j \in i .. Len(h) : h[j].status \in FAILING }

-----------------------------------------------------------------------------
(* C8  persistence                                                         *)

\* C8 as stated: every check persists last_status, last_status_code,
\* last_response_time_ms and last_checked with its result and appends exactly
\* one history row; after n checks of an endpoint it has n history rows.
C8_AsStated ==
    \A s \in DOMAIN evals :
        Done(s)
        => /\ RowHoldsResult(s)
           /\ Len(site_status_history[s]) = evals[s].histBefore + 1
           /\ site_status_history[s][Len(site_status_history[s])] = EventOf(s)
           /\ Len(site_status_history[s]) = evals[s].calls

\* C8 amended: every check whose db.batch is applied, whether or not it
\* triggered a notification, persists the four fields with its result and
\* appends exactly one history row holding that result; a check whose db.batch
\* throws changes neither the row nor the history; an endpoint has as many
\* history rows as checks whose db.batch was applied, at most one per check.
C8_Persistence ==
    \A s \in DOMAIN evals :
        /\ Len(site_status_history[s]) = evals[s].writes
        /\ evals[s].writes <= evals[s].calls
        /\ (Done(s) /\ evals[s].wrote)
           => /\ RowHoldsResult(s)
              /\ Len(site_status_history[s]) = evals[s].histBefore + 1
              /\ site_status_history[s][Len(site_status_history[s])] = EventOf(s)
        /\ (Done(s) /\ ~evals[s].wrote)
           => /\ Len(site_status_history[s]) = evals[s].histBefore
              /\ monitored_sites[s].last_status = evals[s].persistedStatus
              /\ monitored_sites[s].last_notified_down_at = evals[s].persistedNotifiedAt

\* three checks of an endpoint, the second one's db.batch threw: two history
\* rows, the last one holding the third check's result; the third check
\* triggered no notification
C8_Witness ==
    \E s \in DOMAIN evals :
        /\ Done(s) /\ evals[s].wrote /\ evals[s].notified = "none"
        /\ evals[s].calls = 3 /\ Len(site_status_history[s]) = 2
        /\ site_status_history[s][2] = EventOf(s)
        /\ RowHoldsResult(s)

-----------------------------------------------------------------------------
(* C9  the concurrency cap                                                 *)

\* the calls that have started and not returned
InFlight == { s \in DOMAIN evals : evals[s].pc \in {"read", "fetch", "write"} }

\* C9: the scheduler never has more than 10 checks in flight.
C9_AtMostTenInFlight == Cardinality(InFlight) <= 10

\* ten checks are in flight and an eleventh endpoint waits for the next batch
C9_Witness ==
    /\ Cardinality(InFlight) = 10
    /\ sched.pc = "await"
    /\ sched.next <= Len(sched.sitesToCheck)

-----------------------------------------------------------------------------
(* C10  no check aborts the batch                                          *)

\* the trigger is past its endpoint checks
PastChecks == sched.pc \in {"vps", "caught"} \/ (sched.pc = "idle" /\ sched.triggersLeft = 0)

\* C10: within one trigger every loaded endpoint is checked exactly once and
\* each check returns, whatever the results and db.batch failures of the others:
\* no endpoint is checked twice, the handler never lands in its catch, and once
\* it is past the checks every endpoint has one returned check.
C10_EveryEndpointCheckedOnce ==
    /\ \A s \in DOMAIN evals : sched.started[s] <= 1
    /\ sched.pc # "caught"
    /\ PastChecks =>
          \A s \in DOMAIN evals :
              /\ sched.started[s] = 1
              /\ Done(s) /\ evals[s].settled = "fulfilled"

\* the trigger is past its checks, with a DOWN, a TIMEOUT, an ERROR and a thrown
\* db.batch in the first batch, and the endpoint of the second batch checked
C10_Witness ==
    /\ sched.pc = "vps"
    /\ \E a, b, c, d \in 1 .. siteConcurrencyLimit :
          /\ evals[a].newStatus = "DOWN" /\ evals[b].newStatus = "TIMEOUT"
          /\ evals[c].newStatus = "ERROR" /\ ~evals[d].wrote
    /\ \E s \in DOMAIN evals : s > siteConcurrencyLimit /\ Done(s)

-----------------------------------------------------------------------------
(* C11 *)

\* telegram_config holds a row with notifications enabled, a token and a chat
ChannelUsable ==
    \E r \in telegram_config :
        r.enable_notifications = 1 /\ r.bot_token # NULL /\ r.chat_id # NULL

\* C11 as stated: one sendTelegramNotification call makes no outbound call when
\* the channel config is absent, disabled or lacks token or chat, and exactly one
\* otherwise; after a failure it makes no further call, and its promise never
\* rejects.
C11_AsStated ==
    /\ ~ChannelUsable => dispatch.calls = 0
    /\ ChannelUsable /\ dispatch.pc = "done" => dispatch.calls = 1
    /\ dispatch.calls <= 1
    /\ dispatch.settled # "rejected"
    /\ dispatch.pc = "done" => dispatch.settled = "fulfilled"

\* C11: one sendTelegramNotification call makes no outbound call when the channel
\* config is absent, disabled or lacks token or chat, or when reading it throws;
\* it makes exactly one when the read returns a row with notifications enabled,
\* a token and a chat.  Whatever the answer (not ok, a body that does not parse,
\* a transport error) it makes no second call, and its promise fulfils.
C11_Dispatcher ==
    /\ ~ChannelUsable => dispatch.calls = 0
    /\ dispatch.pc = "done" =>
          dispatch.calls = IF ChannelUsable /\ dispatch.read = "row" THEN 1 ELSE 0
    /\ dispatch.pc \in {"fetch", "json"} => dispatch.calls = 1
    /\ dispatch.calls <= 1
    /\ dispatch.settled # "rejected"
    /\ dispatch.pc = "done" => dispatch.settled = "fulfilled"

\* a call that got an answer that was not ok has returned
C11_Witness ==
    /\ dispatch.pc = "done" /\ dispatch.log = "failed"
    /\ dispatch.calls = 1 /\ dispatch.settled = "fulfilled"

-----------------------------------------------------------------------------
(* C12, C13 *)

\* C12: a response with a status in [200, 500) is classified UP, one with a
\* status >= 500 DOWN; the abort by the 15 s timeout is TIMEOUT and any other
\* failure of the fetch is ERROR.
C12_Classification ==
    \A s \in DOMAIN evals :
        Decided(s) =>
            LET e == evals[s]
            IN /\ (e.fetched = "response" /\ e.newStatusCode >= 200
                      /\ e.newStatusCode < 500) => e.newStatus = "UP"
               /\ (e.fetched = "response" /\ e.newStatusCode >= 500)
                      => e.newStatus = "DOWN"
               /\ e.fetched = "timeout" => e.newStatus = "TIMEOUT"
               /\ e.fetched = "error" => e.newStatus = "ERROR"

\* a 499 has been classified
C12_Witness ==
    \E s \in DOMAIN evals :
        /\ Decided(s) /\ evals[s].fetched = "response"
        /\ evals[s].newStatusCode = 499 /\ evals[s].newStatus = "UP"

\* C13: a check never rejects and ends with one of UP, DOWN, TIMEOUT, ERROR; no
\* check persists PENDING, neither in the row nor in the history, so a row that
\* a check has written is not PENDING again.
C13_NeverPending ==
    \A s \in DOMAIN evals :
        /\ evals[s].settled # "rejected"
        /\ Done(s) => evals[s].settled = "fulfilled"
        /\ Decided(s) => evals[s].newStatus \in {"UP", "DOWN", "TIMEOUT", "ERROR"}
        /\ evals[s].writes > 0 => monitored_sites[s].last_status # "PENDING"
        /\ \A i \in DOMAIN site_status_history[s] :
              site_status_history[s][i].status # "PENDING"

\* the second written check of an endpoint ended on a fetch that threw
C13_Witness ==
    \E s \in DOMAIN evals :
        /\ Done(s) /\ evals[s].wrote /\ evals[s].writes = 2
        /\ evals[s].fetched = "error" /\ evals[s].newStatus = "ERROR"

-----------------------------------------------------------------------------
(* C17, C18 *)

\* the rows of metrics for server h
SnapshotsOf(h) == { m \in metrics : m.server_id = h }

\* C17: only a report with the credential of its target server, an existing
\* server id and all of timestamp, cpu, memory, disk, network and uptime is
\* accepted; a report that is not accepted leaves every row of metrics and every
\* last_notified_down_at as they were; a report accepted without ping stores the
\* text of an empty map as ping.
C17_RejectedReport ==
    /\ [](report.status = 200 =>
            /\ report.serverId \in DOMAIN servers
            /\ report.apiKey = 100 + report.serverId
            /\ RequiredKeys \subseteq report.body.keys
            /\ report.body.timestamp # 0
            /\ "ping" \notin report.body.keys =>
                  \A m \in SnapshotsOf(report.serverId) :
                      JSON_parse(m.ping) = EmptyObject)
    /\ [][ (report' # report /\ report'.status # 200)
             => (metrics' = metrics /\ servers' = servers) ]_vars

\* a report with the key of the other server has been refused, and the metrics
\* of its target, stored by a report without ping, are there
C17_Witness ==
    /\ report.status = 401 /\ report.serverId = 1 /\ report.apiKey = 102
    /\ \E m \in SnapshotsOf(1) : JSON_parse(m.ping) = EmptyObject
    /\ servers[1].last_notified_down_at = 50

\* C18: a server has at most one row of metrics, none before its first accepted
\* report and then the content of the last accepted one; an accepted report
\* with the body of the one accepted before it leaves metrics as it was.
C18_Overwrite ==
    /\ [](\A h \in DOMAIN servers :
            LET b == report.accepted[h]
            IN /\ Cardinality(SnapshotsOf(h)) <= 1
               /\ b = NoBody => SnapshotsOf(h) = {}
               /\ b # NoBody =>
                     /\ SnapshotsOf(h) # {}
                     /\ \A m \in SnapshotsOf(h) :
                           /\ m.timestamp = b.timestamp
                           /\ JSON_parse(m.cpu) = b.cpu
                           /\ JSON_parse(m.memory) = b.memory
                           /\ JSON_parse(m.disk) = b.disk
                           /\ JSON_parse(m.network) = b.network
                           /\ m.uptime = b.uptime
                           /\ JSON_parse(m.ping) = IF "ping" \in b.keys
                                                   THEN b.ping ELSE EmptyObject)
    /\ [][ report'.repeat => metrics' = metrics ]_vars

\* a report has been accepted a second time with the same body, both servers
\* having metrics
C18_Witness ==
    /\ report.repeat
    /\ \A h \in DOMAIN servers : SnapshotsOf(h) # {}

-----------------------------------------------------------------------------
(* data_writer alone on every content of the deques up to HISTORY_LEN       *)

InitLoss ==
    /\ InitSites(1, {"PENDING"}, 0)
    /\ InitHosts({ConfiguredChannel}, {}, {NULL})
    /\ InitDaemon({ <<s, f>> : s \in 0 .. HISTORY_LEN, f \in 0 .. HISTORY_LEN }
                     \cap { w \in (0 .. HISTORY_LEN) \X (0 .. HISTORY_LEN) :
                                w[1] + w[2] <= HISTORY_LEN }, 0)

NextLoss == DataWriterPass

LossSpec == InitLoss /\ [][NextLoss]_vars

-----------------------------------------------------------------------------
(* The workers and data_writer interleaved, line by line                    *)

\* <<connects, failures>> of the deques at the start: empty, one result, short,
\* and at or next to HISTORY_LEN
ProbeWindows ==
    { <<0, 0>>, <<0, 1>>, <<1, 1>>, <<30, 10>>, <<71, 29>>, <<98, 1>>,
      <<0, HISTORY_LEN>> }

InitProbe ==
    /\ InitSites(1, {"PENDING"}, 0)
    /\ InitHosts({ConfiguredChannel}, {}, {NULL})
    /\ InitDaemon(ProbeWindows, MaxPushes)

NextProbe ==
    \/ \E carrier \in DOMAIN history, result \in BOOLEAN : worker(carrier, result)
    \/ \E ok \in BOOLEAN : data_writer(ok)

ProbeSpec == InitProbe /\ [][NextProbe]_vars

-----------------------------------------------------------------------------
(* report_metrics reading OUTPUT_FILE while data_writer publishes, one       *)
(* result arriving in between                                               *)

InitPublish ==
    /\ InitSites(1, {"PENDING"}, 0)
    /\ InitHosts({ConfiguredChannel}, {}, {NULL})
    /\ InitDaemon({ <<0, 1>>, <<1, 1>>, <<0, HISTORY_LEN>> }, 1)

NextPublish ==
    \/ \E carrier \in DOMAIN history, result \in BOOLEAN : worker(carrier, result)
    \/ \E ok \in BOOLEAN : data_writer(ok)
    \/ get_ping_data

PublishSpec == InitPublish /\ [][NextPublish]_vars

-----------------------------------------------------------------------------
(* C14, C15, C16 *)

\* the message of the VPS pass that corresponds to a message of the endpoint rule
HostKind(kind) ==
    CASE kind \in {"down", "still_down"} -> "offline"
      [] kind = "recovered" -> "online"
      [] OTHER -> "none"

C16_AsStated ==
    \A h \in DOMAIN servers :
        watch[h].triggers > 0 => watch[h].evaluated = 1

\* C16: a trigger of scheduled() evaluates every server once if the channel is
\* configured (enabled, with token and chat) and the SELECTs of the VPS pass
\* return, and evaluates no server otherwise; the outcomes of the endpoint
\* checks play no part.
C16_OncePerTrigger ==
    \A h \in DOMAIN servers :
        watch[h].triggers > 0 =>
            watch[h].evaluated = IF ChannelUsable /\ watch[h].reads THEN 1 ELSE 0

\* two triggers have ended, each server evaluated once by the second, the
\* endpoint found down
C16_Witness ==
    /\ ChannelUsable
    /\ \A h \in DOMAIN servers : watch[h].triggers = 2 /\ watch[h].evaluated = 1
    /\ \E s \in DOMAIN evals : monitored_sites[s].last_status = "DOWN"

-----------------------------------------------------------------------------
(* C19, C20 *)

\* p is an integer nearest to 100 * a / n (either neighbour at a tie)
Nearest(p, a, n) ==
    /\ 2 * (100 * a - p * n) <= n
    /\ 2 * (p * n - 100 * a) <= n

\* C19 as stated: for every deque of 1 to HISTORY_LEN results the number
\* data_writer publishes is 100 * failures / results rounded to the nearest
\* integer, and is an integer in 0..100.
C19_Rounded ==
    output_file.state = "written" =>
        \A c \in DOMAIN history :
            Len(history[c]) >= 1 =>
                /\ output_file.data[c] \in 0 .. 100
                /\ Nearest(output_file.data[c], count(history[c], FALSE),
                           Len(history[c]))

\* the last k elements of log, all of them if it has fewer
LastOf(log, k) ==
    SubSeq(log, Len(log) - (IF Len(log) < k THEN Len(log) ELSE k) + 1, Len(log))

\* C20: a deque never holds more than HISTORY_LEN results and holds the last
\* min(n, HISTORY_LEN) of the n appended to it; for a published number, the
\* failures counted are those among the last min(n, HISTORY_LEN) of the n
\* results appended before list(q), the length used is that of the deque when
\* len(q) was read, the number is computed from these two alone, and it is 0 if
\* the deque was empty.
C20_Window ==
    /\ \A c \in DOMAIN history :
          /\ Len(history[c]) <= HISTORY_LEN
          /\ history[c] = LastOf(pushed.log[c], HISTORY_LEN)
    /\ output_file.state = "written" =>
          \A c \in DOMAIN history :
              LET seen == SubSeq(pushed.log[c], 1, output_file.copyAt[c])
                  size == IF output_file.lenAt[c] < HISTORY_LEN
                          THEN output_file.lenAt[c] ELSE HISTORY_LEN
              IN IF seen = <<>>
                 THEN output_file.data[c] = 0
                 ELSE /\ output_file.lost[c] =
                             count(LastOf(seen, HISTORY_LEN), FALSE)
                      /\ output_file.len[c] = size
                      /\ output_file.data[c] =
                             loss_rate(output_file.lost[c], output_file.len[c])
                      /\ output_file.data[c] \in 0 .. 100
                      /\ (output_file.lost[c] = 0) <=> (output_file.data[c] = 0)
                      /\ (output_file.lost[c] = output_file.len[c])
                            <=> (output_file.data[c] = 100)

\* a failure was evicted from a full deque by a connect before data_writer read
\* it, and the published number counts the 99 failures left
C20_Witness ==
    \E c \in DOMAIN history :
        /\ output_file.state = "written"
        /\ output_file.copyAt[c] = HISTORY_LEN + 1
        /\ pushed.log[c][1] = FALSE
        /\ output_file.lost[c] = HISTORY_LEN - 1
        /\ output_file.data[c] = 99

-----------------------------------------------------------------------------
(* C21, C22 *)

\* C21 as stated: whenever report_metrics reads the loss figures it gets a whole
\* set, one number for each carrier: the zeros before the first publication, or
\* what data_writer wrote in one of its turns; never nothing and never a part.
C21_WholeSnapshot ==
    ping_data.text # "unread" =>
        /\ ping_data.text \in {"default", "json"}
        /\ \A c \in DOMAIN history : ping_data.data[c] \in 0 .. 100

\* C22 as stated: the failures counted and the length used for a published
\* number are those of one and the same content of the deque, the one
\* data_writer copied, also when a worker appends while data_writer is at work.
C22_PointInTimeCopy ==
    output_file.state = "written" =>
        \A c \in DOMAIN history :
            LET copy == LastOf(SubSeq(pushed.log[c], 1, output_file.copyAt[c]),
                               HISTORY_LEN)
            IN /\ output_file.lost[c] = count(copy, FALSE)
               /\ output_file.len[c] = Len(copy)

-----------------------------------------------------------------------------
(* C23 *)

\* the call sched follows and the call of the other invocation for endpoint s
\* overlap: both have decided, their SELECTs returned, and each ran its SELECT
\* before the db.batch of the other was applied
Overlapped(s) ==
    /\ evals[s].pc \in {"write", "done"} /\ overlapping[s].pc \in {"write", "done"}
    /\ evals[s].selected /\ overlapping[s].selected
    /\ evals[s].readAt = overlapping[s].readAt
    /\ evals[s].pc = "done" => evals[s].wrote
    /\ overlapping[s].pc = "done" => overlapping[s].wrote

\* C23: two calls for one endpoint that overlap have read the same last_status
\* and last_notified_down_at, and each decides as if it were alone: when both
\* results are failing and the status read is not, both trigger "down"; when the
\* status read is failing too, each triggers "still_down" exactly when the stamp
\* read is null or more than 3600 s before its checkTime.  So one transition, or
\* one expiry of the cooldown, can be announced twice.
C23_BothNotify ==
    \A s \in DOMAIN evals :
        Overlapped(s) =>
            /\ evals[s].previousStatus = overlapping[s].previousStatus
            /\ evals[s].siteLastNotifiedDownAt = overlapping[s].siteLastNotifiedDownAt
            /\ \A ev \in {evals[s], overlapping[s]} :
                  ev.newStatus \in FAILING =>
                      ev.notified =
                          IF ev.previousStatus \notin FAILING THEN "down"
                          ELSE IF \/ ev.siteLastNotifiedDownAt = NULL
                                  \/ ev.checkTime - ev.siteLastNotifiedDownAt > 3600
                               THEN "still_down" ELSE "none"

\* the endpoint was up; two overlapping calls found it down and each has
\* triggered "down": two messages for one transition
C23_Witness ==
    \E s \in DOMAIN evals :
        /\ Overlapped(s)
        /\ evals[s].previousStatus = "UP"
        /\ evals[s].notified = "down" /\ overlapping[s].notified = "down"
        /\ Len(notifications[s]) = 2
        /\ \A k \in DOMAIN notifications[s] : notifications[s][k].kind = "down"

-----------------------------------------------------------------------------
(* C29 *)

\* the calls another invocation has made that have started and not returned
OverlappingInFlight ==
    { s \in DOMAIN overlapping : overlapping[s].pc \in {"read", "fetch", "write"} }

\* C29: POST /api/admin/sites starts one call of checkWebsiteStatus for the
\* endpoint it inserts, in the same step and outside scheduled(): the scheduler
\* neither counts it among its sitePromises nor waits for it, so that it runs
\* beside the siteConcurrencyLimit calls of a batch.  When it overlaps the
\* scheduled call for the same endpoint, both have read last_status PENDING and
\* no last_notified_down_at.
C29_ImmediateCheck ==
    /\ [](/\ \A s \in DOMAIN overlapping :
               overlapping[s].calls = IF s >= siteConcurrencyLimit THEN 1 ELSE 0
          /\ Cardinality(InFlight) <= siteConcurrencyLimit
          /\ \A s \in sched.sitePromises : sched.started[s] = 1
          /\ \A s \in DOMAIN evals :
                Overlapped(s) =>
                    /\ evals[s].previousStatus = "PENDING"
                    /\ overlapping[s].previousStatus = "PENDING"
                    /\ evals[s].siteLastNotifiedDownAt = NULL
                    /\ overlapping[s].siteLastNotifiedDownAt = NULL)
    /\ [][DOMAIN monitored_sites' # DOMAIN monitored_sites =>
            \A s \in DOMAIN monitored_sites' \ DOMAIN monitored_sites :
                /\ monitored_sites'[s].last_status = "PENDING"
                /\ overlapping'[s].pc = "read"
                /\ evals'[s].pc = "idle"
                /\ sched'.pc = sched.pc
                /\ sched'.sitePromises = sched.sitePromises
                /\ sched'.next = sched.next]_vars

\* the ten calls of a batch are in flight, among them the one for the endpoint
\* just added, and so is the call POST /api/admin/sites made for it: eleven in
\* all; the two calls for the new endpoint have both read PENDING
C29_Witness ==
    \E s \in DOMAIN evals :
        /\ Cardinality(InFlight) = siteConcurrencyLimit
        /\ s \in InFlight /\ s \in OverlappingInFlight
        /\ Overlapped(s)
        /\ evals[s].previousStatus = "PENDING"
        /\ overlapping[s].previousStatus = "PENDING"

-----------------------------------------------------------------------------
(* C24 *)

\* the wave of the endpoint at position s of sitesToCheck
Wave(s) == (s - 1) \div siteConcurrencyLimit

\* C24: within one trigger, when a call of a wave has started every call of the
\* waves before has returned, and the handler is at its VPS part only when
\* every call has returned.
C24_Waves ==
    /\ \A s, t \in DOMAIN evals :
          (sched.started[s] = 1 /\ Wave(t) < Wave(s)) => Done(t)
    /\ \A s \in sched.sitePromises :
          \A t \in sched.sitePromises : Wave(s) = Wave(t)
    /\ sched.pc = "vps" => \A s \in DOMAIN evals : Done(s)

\* the call of the second wave is in flight and the ten calls of the first have
\* returned
C24_Witness ==
    /\ sched.pc = "await"
    /\ \E s \in InFlight : Wave(s) = 1
    /\ \A t \in DOMAIN evals : Wave(t) = 0 => Done(t)
    /\ Cardinality({ t \in DOMAIN evals : Wave(t) = 0 }) = siteConcurrencyLimit

-----------------------------------------------------------------------------
(* C25 *)

\* h with its first n rows only
Prefix(h, n) == SubSeq(h, 1, n)

\* the step is one of scheduled() or of a call it made, not a report coming in
SchedulerStep == report' = report

\* C25: a step of scheduled() or of a checkWebsiteStatus call it made changes,
\* of an endpoint's row, at most last_checked, last_status, last_status_code,
\* last_response_time_ms and last_notified_down_at; it leaves every history row
\* there is as it is and at most adds rows behind them; of a server's row it
\* changes at most last_notified_down_at, and only at the end of the trigger,
\* where neither an endpoint's row nor the history changes; it leaves metrics
\* alone and neither adds nor removes an endpoint or a server.
C25_Frame ==
    [][SchedulerStep =>
        /\ DOMAIN monitored_sites' = DOMAIN monitored_sites
        /\ DOMAIN site_status_history' = DOMAIN monitored_sites
        /\ \A s \in DOMAIN monitored_sites :
              /\ monitored_sites'[s].url = monitored_sites[s].url
              /\ monitored_sites'[s].name = monitored_sites[s].name
              /\ monitored_sites'[s].added_at = monitored_sites[s].added_at
              /\ monitored_sites'[s].sort_order = monitored_sites[s].sort_order
              /\ Len(site_status_history'[s]) >= Len(site_status_history[s])
              /\ Prefix(site_status_history'[s], Len(site_status_history[s]))
                    = site_status_history[s]
        /\ DOMAIN servers' = DOMAIN servers
        /\ \A h \in DOMAIN servers : servers'[h].api_key = servers[h].api_key
        /\ servers' # servers =>
              /\ sched.pc = "vps" /\ sched'.pc = "idle"
              /\ monitored_sites' = monitored_sites
              /\ site_status_history' = site_status_history
        /\ metrics' = metrics]_vars

\* two checks of the endpoint have written its row and two history rows, the
\* VPS pass has stamped a server, and the other columns are as they were
C25_Witness ==
    \E s \in DOMAIN monitored_sites, h \in DOMAIN servers :
        /\ Len(site_status_history[s]) = 2
        /\ monitored_sites[s].last_status = "DOWN"
        /\ monitored_sites[s].last_notified_down_at # NULL
        /\ monitored_sites[s].url = Row("PENDING").url
        /\ servers[h].last_notified_down_at # NULL
        /\ servers[h].api_key = ServerRow(h).api_key

-----------------------------------------------------------------------------
(* C26 *)

\* C26: a call whose db.batch throws leaves the row of the endpoint and its
\* history as they were when the call started, returns without throwing, and
\* the message it handed to waitUntil stays handed over; a call whose db.batch
\* is applied has written the row and appended the history row together.  So
\* with calls that do not overlap, the last history row of an endpoint, if
\* there is one, carries the last_status and last_checked of its row.
C26_AllOrNothing ==
    \A s \in DOMAIN evals :
        /\ (Done(s) /\ ~evals[s].wrote) =>
              /\ monitored_sites[s].last_status = evals[s].persistedStatus
              /\ monitored_sites[s].last_notified_down_at = evals[s].persistedNotifiedAt
              /\ Len(site_status_history[s]) = evals[s].histBefore
              /\ evals[s].settled = "fulfilled"
              /\ Len(SentBy(s)) = IF evals[s].notified = "none" THEN 0 ELSE 1
              /\ \A k \in DOMAIN SentBy(s) : SentBy(s)[k].kind = evals[s].notified
        /\ (Done(s) /\ evals[s].wrote) =>
              /\ RowHoldsResult(s)
              /\ monitored_sites[s].last_notified_down_at
                    = evals[s].newSiteLastNotifiedDownAt
              /\ Len(site_status_history[s]) = evals[s].histBefore + 1
        /\ site_status_history[s] # <<>> =>
              LET last == site_status_history[s][Len(site_status_history[s])]
              IN /\ last.status = monitored_sites[s].last_status
                 /\ last.timestamp = monitored_sites[s].last_checked
                 /\ last.status_code = monitored_sites[s].last_status_code

\* a check found the endpoint down and triggered "down", its db.batch threw:
\* the row is still UP, the history still ends with the UP of the check before
C26_Witness ==
    \E s \in DOMAIN evals :
        /\ Done(s) /\ ~evals[s].wrote /\ evals[s].calls = 2
        /\ evals[s].notified = "down"
        /\ SentBy(s) = <<Message("down", evals[s].checkTime)>>
        /\ monitored_sites[s].last_status = "UP"
        /\ monitored_sites[s].last_notified_down_at = NULL
        /\ StatusesOf(site_status_history[s]) = <<"UP">>

-----------------------------------------------------------------------------
(* C30 *)

\* C30: a call whose SELECT of the row threw goes on to the fetch and to the
\* db.batch with previousStatus PENDING and siteLastNotifiedDownAt null,
\* whatever the row holds; when its result is DOWN, TIMEOUT or ERROR it hands
\* one "down" message to waitUntil and takes its check time as the stamp.
C30_FailedRead ==
    \A s \in DOMAIN evals :
        (evals[s].pc \in {"fetch", "write", "done"} /\ ~evals[s].selected) =>
            /\ evals[s].previousStatus = "PENDING"
            /\ evals[s].siteLastNotifiedDownAt = NULL
            /\ evals[s].settled \in {"pending", "fulfilled"}
            /\ Done(s) => evals[s].settled = "fulfilled"
            /\ (Decided(s) /\ evals[s].newStatus \in FAILING) =>
                  /\ evals[s].notified = "down"
                  /\ SentBy(s) = <<Message("down", evals[s].checkTime)>>
                  /\ evals[s].newSiteLastNotifiedDownAt = evals[s].checkTime

\* the row is DOWN and stamped less than an hour before the check; the SELECT
\* threw, the check found the endpoint failing and triggered "down" again
C30_Witness ==
    \E s \in DOMAIN evals :
        /\ Done(s) /\ ~evals[s].selected
        /\ evals[s].persistedStatus \in FAILING
        /\ evals[s].persistedNotifiedAt # NULL
        /\ evals[s].checkTime - evals[s].persistedNotifiedAt
              < NOTIFICATION_INTERVAL_SECONDS
        /\ evals[s].newStatus \in FAILING
        /\ SentBy(s) = <<Message("down", evals[s].checkTime)>>
        /\ Len(notifications[s]) = 2

-----------------------------------------------------------------------------
(* C28 *)

\* C28: when telegram_config holds no row, or a row with notifications off or
\* without token or chat, the step that ends a trigger after its batches leaves
\* every row of servers as it is, meets no server in the loop of line 1305,
\* hands no "offline" or "online" message to waitUntil and issues no UPDATE;
\* a check of an endpoint whose db.batch was applied has stored the stamp its
\* decision chose all the same.
C28_WatchdogSkipped ==
    /\ [](~ChannelUsable =>
            \A s \in DOMAIN evals :
                (Done(s) /\ evals[s].wrote) =>
                    monitored_sites[s].last_notified_down_at
                        = evals[s].newSiteLastNotifiedDownAt)
    /\ [][(sched.pc = "vps" /\ sched'.pc = "idle" /\ ~ChannelUsable) =>
            /\ servers' = servers
            /\ \A h \in DOMAIN servers :
                  /\ watch'[h].triggers = watch[h].triggers + 1
                  /\ watch'[h].evaluated = 0
                  /\ watch'[h].notify = "none"
                  /\ watch'[h].update = "none"]_vars

\* a trigger has ended with the row of telegram_config lacking its token: the
\* check of the endpoint found it down and stored its check time as the stamp,
\* a server silent for longer than the threshold was not met and has no stamp
C28_Witness ==
    /\ ~ChannelUsable
    /\ \E r \in telegram_config : r.bot_token = NULL /\ r.enable_notifications = 1
    /\ sched.pc = "idle"
    /\ \E s \in DOMAIN evals :
          /\ Done(s) /\ evals[s].notified = "down"
          /\ monitored_sites[s].last_notified_down_at = evals[s].checkTime
    /\ \E h \in DOMAIN servers :
          /\ watch[h].triggers >= 1
          /\ watch[h].evaluated = 0
          /\ Silent(h, watch[h].at)
          /\ servers[h].last_notified_down_at = NULL

-----------------------------------------------------------------------------
(* C27 *)

\* the "down" or "still_down" message endpoint s handed over at t is the last
\* one a sendTelegramNotification call was made for, and that call has returned
\* without Telegram having accepted the message
Undelivered(s, t) ==
    /\ dispatch.pc = "done" /\ dispatch.log # "sent"
    /\ dispatch.invoked \in DOMAIN notifications[s]
    /\ notifications[s][dispatch.invoked].at = t
    /\ notifications[s][dispatch.invoked].kind \in {"down", "still_down"}

\* C27 as stated: a check that hands over "down" or "still_down" takes its
\* check time as the stamp, whatever becomes of the message; and a check that
\* finds the row failing and stamped at most 3600 s ago, the message of the
\* stamp not delivered, and has a failing result hands over no message.
C27_StampedUndelivered ==
    \A s \in DOMAIN evals :
        /\ (Decided(s) /\ evals[s].notified \in {"down", "still_down"}) =>
              evals[s].newSiteLastNotifiedDownAt = evals[s].checkTime
        /\ (Decided(s) /\ evals[s].persistedStatus \in FAILING
                       /\ evals[s].newStatus \in FAILING
                       /\ evals[s].persistedNotifiedAt # NULL
                       /\ Undelivered(s, evals[s].persistedNotifiedAt)
                       /\ evals[s].checkTime - evals[s].persistedNotifiedAt
                             <= NOTIFICATION_INTERVAL_SECONDS)
           => SentBy(s) = <<>>

====
